---- MODULE Spec2Model ----
(***************************************************************************)
(* Host-authoritative property-trading board game (src/App.tsx, network    *)
(* version, lines 986-2015) and its socket relay (src/server.js).          *)
(*                                                                         *)
(* One host process runs executeGameLogic; every other participant holds   *)
(* a replica that is replaced wholesale by game_state_sync snapshots.      *)
(* The model starts from a room that has been set up in the lobby and      *)
(* follows the code from handleStartGameRequest on.                        *)
(***************************************************************************)
EXTENDS Integers, Sequences, FiniteSets, TLC

(***************************************************************************)
(* Bounds of the exploration.                                              *)
(***************************************************************************)
\* inputs (intents and tile clicks) of the host's user in one behaviour
MaxHostInputs == 1
\* inputs (intents and tile clicks) of the guest's user in one behaviour
MaxGuestInputs == 1
\* intents the AI hook dispatches in one behaviour
MaxAIIntents == 3
\* the dice are drawn from 1..MaxDie (the code draws from 1..6)
MaxDie == 2
\* messages one socket direction holds before the other end handles them
MaxInFlight == 2
\* intents the engine applies in one behaviour of EngineSpec
MaxEngineSteps == 4

\* intents the host executes from a position in the middle of a game
MaxRuleSteps == 1

\* end-turn intents applied to one drawn roster
MaxRotationSteps == 2

\* intents the host executes from the start of a drawn turn
MaxTurnSteps == 2

\* messages a socket outside the room's clients sends to the relay
MaxSocketEmits == 1

(***************************************************************************)
(* Program constants.                                                      *)
(***************************************************************************)
BoardSize == 40
JailPosition == 10
BailFee == 50
PassStartBonus == 200
StationBaseRent == 25
DefaultTax == 100
MaxHouses == 5
SpeedingDoubles == 3
MaxJailTurns == 2
AIBailThreshold == 500
\* INITIAL_MONEY of the constants module
InitialMoney == 200

NoPlayer == "none"
NoTile == -1
NoCard == 0
RoomId == "room"

DieFaces == 1..MaxDie

(***************************************************************************)
(* Board Model: static per-tile configuration (INITIAL_TILES).  A price or *)
(* houseCost of 0 stands for an absent (undefined) field.                  *)
(***************************************************************************)
Plain(type) ==
    [type |-> type, group |-> "none", price |-> 0,
     rent |-> <<0, 0, 0, 0, 0, 0>>, houseCost |-> 0]

Prop(group, price, rent, houseCost) ==
    [type |-> "PROPERTY", group |-> group, price |-> price,
     rent |-> rent, houseCost |-> houseCost]

Station ==
    [type |-> "STATION", group |-> "station", price |-> 200,
     rent |-> <<0, 0, 0, 0, 0, 0>>, houseCost |-> 0]

Utility ==
    [type |-> "UTILITY", group |-> "utility", price |-> 150,
     rent |-> <<0, 0, 0, 0, 0, 0>>, houseCost |-> 0]

Tax(amount) ==
    [type |-> "TAX", group |-> "none", price |-> amount,
     rent |-> <<0, 0, 0, 0, 0, 0>>, houseCost |-> 0]

\* tile id i is element i + 1
INITIAL_TILES ==
    << Plain("START"),
       Prop("brown", 60, <<2, 10, 30, 90, 160, 250>>, 50),
       Plain("COMMUNITY_CHEST"),
       Prop("brown", 60, <<4, 20, 60, 180, 320, 450>>, 50),
       Tax(200),
       Station,
       Prop("light_blue", 100, <<6, 30, 90, 270, 400, 550>>, 50),
       Plain("CHANCE"),
       Prop("light_blue", 100, <<6, 30, 90, 270, 400, 550>>, 50),
       Prop("light_blue", 120, <<8, 40, 100, 300, 450, 600>>, 50),
       Plain("JAIL"),
       Prop("pink", 140, <<10, 50, 150, 450, 625, 750>>, 100),
       Utility,
       Prop("pink", 140, <<10, 50, 150, 450, 625, 750>>, 100),
       Prop("pink", 160, <<12, 60, 180, 500, 700, 900>>, 100),
       Station,
       Prop("orange", 180, <<14, 70, 200, 550, 750, 950>>, 100),
       Plain("COMMUNITY_CHEST"),
       Prop("orange", 180, <<14, 70, 200, 550, 750, 950>>, 100),
       Prop("orange", 200, <<16, 80, 220, 600, 800, 1000>>, 100),
       Plain("PARKING"),
       Prop("red", 220, <<18, 90, 250, 700, 875, 1050>>, 150),
       Plain("CHANCE"),
       Prop("red", 220, <<18, 90, 250, 700, 875, 1050>>, 150),
       Prop("red", 240, <<20, 100, 300, 750, 925, 1100>>, 150),
       Station,
       Prop("yellow", 260, <<22, 110, 330, 800, 975, 1150>>, 150),
       Prop("yellow", 260, <<22, 110, 330, 800, 975, 1150>>, 150),
       Utility,
       Prop("yellow", 280, <<24, 120, 360, 850, 1025, 1200>>, 150),
       Plain("GO_TO_JAIL"),
       Prop("green", 300, <<26, 130, 390, 900, 1100, 1275>>, 200),
       Prop("green", 300, <<26, 130, 390, 900, 1100, 1275>>, 200),
       Plain("COMMUNITY_CHEST"),
       Prop("green", 320, <<28, 150, 450, 1000, 1200, 1400>>, 200),
       Station,
       Plain("CHANCE"),
       Prop("dark_blue", 350, <<35, 175, 500, 1100, 1300, 1500>>, 200),
       Tax(100),
       Prop("dark_blue", 400, <<50, 200, 600, 1400, 1700, 2000>>, 200) >>

TileIds == 0..(BoardSize - 1)

Board(i) == INITIAL_TILES[i + 1]

(***************************************************************************)
(* ChanceCard deck (CHANCE_CARDS).  jailText records whether the card's    *)
(* description contains the jail keyword the MOVE_TO branch tests for.     *)
(***************************************************************************)
Card(effectType, value, jailText) ==
    [effectType |-> effectType, value |-> value, jailText |-> jailText]

CHANCE_CARDS ==
    << Card("MONEY", 100, FALSE),
       Card("MONEY", -50, FALSE),
       Card("MOVE_TO", 0, FALSE),
       Card("MOVE_TO", 10, TRUE),
       Card("MOVE_STEPS", -3, FALSE),
       Card("GO_TO_JAIL", 0, TRUE),
       Card("MOVE_TO", 24, FALSE),
       Card("MOVE_STEPS", 5, FALSE) >>

CardIds == 1..Len(CHANCE_CARDS)

(***************************************************************************)
(* Roster agreed in the lobby, in seat order: the host's user, one         *)
(* automated seat added by the host, and one remote user.                  *)
(***************************************************************************)
Host == "H"
Guest == "G"
Procs == {Host, Guest}

Roster ==
    << [id |-> "h", isAI |-> FALSE],
       [id |-> "a", isAI |-> TRUE],
       [id |-> "g", isAI |-> FALSE] >>

PlayerIds == {Roster[i].id : i \in 1..Len(Roster)}

UserOf(p) == IF p = Host THEN "h" ELSE "g"

ActionTypes ==
    {"ROLL", "BUY", "PASS", "PAY_BAIL", "UPGRADE", "END_TURN", "SURRENDER"}

\* tiles a participant may click in this exploration
SelectableTiles == {3}

(***************************************************************************)
(* Game State helpers.                                                     *)
(***************************************************************************)
\* one entry of the ordered log: the message template, its severity and
\* the values the message interpolates
Log(msg, type, who, other, amount) ==
    [msg |-> msg, type |-> type, who |-> who, other |-> other, amount |-> amount]

AddLog(s, e) == [s EXCEPT !.logs = Append(@, e)]

HasPlayer(s, pid) == \E i \in 1..Len(s.players) : s.players[i].id = pid

\* players.findIndex(p => p.id === pid), 1-based
PIdx(s, pid) == CHOOSE i \in 1..Len(s.players) : s.players[i].id = pid

\* players.filter(p => !p.bankrupt)
activePlayers(players) == SelectSeq(players, LAMBDA p : ~p.bankrupt)

\* activePlayers[0] || null
FirstActive(players) ==
    IF Len(activePlayers(players)) = 0 THEN NoPlayer
    ELSE activePlayers(players)[1].id

\* The mutable overlay of the tile array.  Every tile starts as freeTile
\* (INITIAL_TILES.map(t => ({...t, ownerId: null, houseCount: 0}))); the
\* variable keeps the elements that differ from it, and tileAt reads one.
freeTile == [ownerId |-> NoPlayer, houseCount |-> 0]

noTiles == [t \in {} |-> freeTile]

tileAt(tiles, t) == IF t \in DOMAIN tiles THEN tiles[t] ELSE freeTile

\* newTiles[t] = tile
setTile(tiles, t, tile) ==
    [x \in (IF tile = freeTile THEN DOMAIN tiles \ {t} ELSE DOMAIN tiles \cup {t}) |->
        IF x = t THEN tile ELSE tiles[x]]

\* tiles.map(t => t.ownerId === pid ? {...t, ownerId: null, houseCount: 0} : t)
releaseTiles(tiles, pid) ==
    [t \in {x \in DOMAIN tiles : tiles[x].ownerId # pid} |-> tiles[t]]

checkOwnsGroup(playerId, group, allTiles) ==
    IF playerId = NoPlayer \/ group = "none" THEN FALSE
    ELSE LET groupTiles == {t \in TileIds : Board(t).group = group}
         IN  groupTiles # {} /\ \A t \in groupTiles : tileAt(allTiles, t).ownerId = playerId

ownedInGroup(tiles, group, ownerId) ==
    Cardinality({t \in TileIds : Board(t).group = group /\ tileAt(tiles, t).ownerId = ownerId})

RECURSIVE Pow2(_)
Pow2(n) == IF n <= 0 THEN 1 ELSE 2 * Pow2(n - 1)

\* a variant of sendToJail that leaves the doubles counter as it is
sendToJail_keepDoubles(p) ==
    [p EXCEPT !.position = JailPosition, !.isInJail = TRUE, !.jailTurns = 0]

\* a variant of sendToJail that jails the player on the tile they stand on
sendToJail_inPlace(p) ==
    [p EXCEPT !.isInJail = TRUE, !.jailTurns = 0, !.consecutiveDoubles = 0]

\* the jail assignment shared by the speeding rule, the go-to-jail tile and
\* the jail cards
sendToJail(p) ==
    [p EXCEPT !.position = JailPosition, !.isInJail = TRUE,
              !.jailTurns = 0, !.consecutiveDoubles = 0]

\* a variant of leaveJail that resets the counters and keeps the player
\* jailed
leaveJail_stillJailed(p) ==
    [p EXCEPT !.jailTurns = 0, !.consecutiveDoubles = 0]

\* a variant of leaveJail that leaves the jail-turn counter as it is
leaveJail_keepTurns(p) ==
    [p EXCEPT !.isInJail = FALSE, !.consecutiveDoubles = 0]

\* the release shared by a rolled double, the forced bail and PAY_BAIL
leaveJail(p) ==
    [p EXCEPT !.isInJail = FALSE, !.jailTurns = 0, !.consecutiveDoubles = 0]

\* a variant of afterLandingPhase that ends the turn after a double too
afterLandingPhase_endTurn(isDouble) == IF isDouble THEN "END_TURN" ELSE "END_TURN"

afterLandingPhase(isDouble) == IF isDouble THEN "ROLLING" ELSE "END_TURN"

(***************************************************************************)
(* Turn Rotation.                                                          *)
(***************************************************************************)
\* a variant of skipBankrupt that steps over one bankrupt player at most
skipBankrupt_once(players, nextIndex, loopCount) ==
    IF players[nextIndex + 1].bankrupt /\ loopCount < Len(players)
    THEN (nextIndex + 1) % Len(players)
    ELSE nextIndex

RECURSIVE skipBankrupt(_, _, _)
skipBankrupt(players, nextIndex, loopCount) ==
    IF players[nextIndex + 1].bankrupt /\ loopCount < Len(players)
    THEN skipBankrupt(players, (nextIndex + 1) % Len(players), loopCount + 1)
    ELSE nextIndex

processEndTurn(s) ==
    LET nextIndex == skipBankrupt(s.players,
                                  (s.currentPlayerIndex + 1) % Len(s.players), 0)
    IN  IF Len(activePlayers(s.players)) <= 1
        THEN [s EXCEPT !.winner = FirstActive(s.players), !.phase = "GAME_OVER"]
        ELSE [s EXCEPT !.currentPlayerIndex = nextIndex,
                       !.phase = "ROLLING",
                       !.waitingForDoublesTurn = FALSE]

(***************************************************************************)
(* Economy Engine and simple intents.                                      *)
(***************************************************************************)
\* a variant of surrenderedPlayer that empties the balance and leaves the
\* player in the game
surrenderedPlayer_solvent(p) == [p EXCEPT !.money = 0]

surrenderedPlayer(p) == [p EXCEPT !.bankrupt = TRUE, !.money = 0]

processSurrender(s, pid) ==
    LET i == PIdx(s, pid)
        isTurn == s.players[s.currentPlayerIndex + 1].id = pid
        nextState ==
            [AddLog(s, Log("surrender", "danger", pid, NoPlayer, 0))
                EXCEPT !.players[i] = surrenderedPlayer(@),
                       !.tiles = releaseTiles(@, pid)]
    IN  IF isTurn THEN processEndTurn(nextState)
        ELSE IF Len(activePlayers(nextState.players)) <= 1
             THEN [nextState EXCEPT !.winner = FirstActive(nextState.players),
                                    !.phase = "GAME_OVER"]
             ELSE nextState

\* a variant of processPayBail that takes the fee whatever the balance is
processPayBail_anyBalance(s, pid) ==
    LET i == PIdx(s, pid)
    IN  [AddLog(s, Log("bailPaid", "success", pid, NoPlayer, BailFee))
            EXCEPT !.players[i] = [leaveJail(@) EXCEPT !.money = @ - BailFee]]

processPayBail(s, pid) ==
    LET i == PIdx(s, pid)
    IN  IF s.players[i].money < BailFee
        THEN AddLog(s, Log("bailRefused", "warning", pid, NoPlayer, 0))
        ELSE [AddLog(s, Log("bailPaid", "success", pid, NoPlayer, BailFee))
                EXCEPT !.players[i] = [leaveJail(@) EXCEPT !.money = @ - BailFee]]

processUpgrade(s, pid) ==
    LET i == PIdx(s, pid)
        t == s.selectedTileId
    IN  IF t = NoTile THEN s
        ELSE IF t \notin TileIds \/ Board(t).houseCost = 0 THEN s
        ELSE IF s.players[i].money < Board(t).houseCost
             THEN AddLog(s, Log("upgradeNoFunds", "warning", NoPlayer, NoPlayer, 0))
        ELSE IF tileAt(s.tiles, t).houseCount >= MaxHouses
             THEN AddLog(s, Log("upgradeAtMax", "warning", NoPlayer, NoPlayer, 0))
        ELSE [AddLog(s, Log("upgraded", "success", pid, NoPlayer, Board(t).houseCost))
                EXCEPT !.players[i].money = @ - Board(t).houseCost,
                       !.tiles = setTile(@, t, [tileAt(@, t) EXCEPT
                                                    !.houseCount = @ + 1])]

processPass(s, pid) ==
    [AddLog(s, Log("declined", "info", pid, NoPlayer, 0))
        EXCEPT !.phase = IF s.waitingForDoublesTurn THEN "ROLLING" ELSE "END_TURN"]

processBuy(s, pid) ==
    LET i == PIdx(s, pid)
        pos == s.players[i].position
        price == Board(pos).price
    IN  IF price = 0 \/ s.players[i].money < price THEN s
        ELSE [AddLog(s, Log("bought", "success", pid, NoPlayer, price))
                EXCEPT !.players[i].money = @ - price,
                       !.players[i].properties = Append(@, pos),
                       !.tiles = setTile(@, pos, [tileAt(@, pos) EXCEPT
                                                      !.ownerId = pid]),
                       !.phase = IF s.waitingForDoublesTurn
                                 THEN "ROLLING" ELSE "END_TURN"]

(***************************************************************************)
(* Landing Resolver.                                                       *)
(***************************************************************************)
\* a variant of cardSteps that pays the pass-start bonus on a wraparound
\* in either direction
cardSteps_anyWrap(p, value) ==
    LET raw == p.position + value
    IN  [p EXCEPT !.money = IF raw >= BoardSize \/ raw < 0
                            THEN @ + PassStartBonus ELSE @,
                  !.position = raw % BoardSize]

\* the position and pass-start bonus of a MOVE_STEPS card
cardSteps(p, value) ==
    LET raw == p.position + value
        wrapped == IF raw >= BoardSize THEN raw - BoardSize ELSE raw
    IN  [p EXCEPT !.money = IF raw >= BoardSize THEN @ + PassStartBonus ELSE @,
                  !.position = IF wrapped < 0 THEN wrapped + BoardSize ELSE wrapped]

\* a variant of cardMoveTo that pays the pass-start bonus on every move
cardMoveTo_always(p, value) ==
    [p EXCEPT !.money = @ + PassStartBonus, !.position = value]

\* the position and pass-start bonus of a MOVE_TO card that does not jail
cardMoveTo(p, value) ==
    [p EXCEPT !.money = IF p.position > value THEN @ + PassStartBonus ELSE @,
              !.position = value]

applyChanceEffect(s, playerId, ci, isDouble) ==
    LET card == CHANCE_CARDS[ci]
        i == PIdx(s, playerId)
        s1 == AddLog(s, Log("cardExecuted", "info", playerId, NoPlayer, ci))
        jailed == [AddLog(s1, Log("cardJail", "danger", playerId, NoPlayer, 0))
                     EXCEPT !.players[i] = sendToJail(@),
                            !.phase = "END_TURN",
                            !.waitingForDoublesTurn = FALSE]
        free(q) == [s1 EXCEPT !.players[i] = q,
                              !.phase = afterLandingPhase(isDouble),
                              !.waitingForDoublesTurn = isDouble]
        p == s.players[i]
    IN  CASE card.effectType = "MONEY" ->
                free([p EXCEPT !.money = @ + card.value])
          [] card.effectType = "MOVE_TO" ->
                IF card.value = JailPosition /\ card.jailText
                THEN jailed
                ELSE free(cardMoveTo(p, card.value))
          [] card.effectType = "MOVE_STEPS" ->
                free(cardSteps(p, card.value))
          [] card.effectType = "GO_TO_JAIL" -> jailed

\* a variant of rentDue that doubles the rent of a whole group whatever is
\* built on the tile
rentDue_groupDoubles(s, t, ownerId) ==
    CASE Board(t).type = "PROPERTY" ->
            IF checkOwnsGroup(ownerId, Board(t).group, s.tiles)
            THEN Board(t).rent[tileAt(s.tiles, t).houseCount + 1] * 2
            ELSE Board(t).rent[tileAt(s.tiles, t).houseCount + 1]
      [] Board(t).type = "STATION" ->
            StationBaseRent * Pow2(ownedInGroup(s.tiles, "station", ownerId) - 1)
      [] Board(t).type = "UTILITY" ->
            IF ownedInGroup(s.tiles, "utility", ownerId) = 2
            THEN (s.dice[1] + s.dice[2]) * 10
            ELSE (s.dice[1] + s.dice[2]) * 4

\* a variant of rentDue whose station rent grows by 25 with each station
\* instead of doubling
rentDue_linearStations(s, t, ownerId) ==
    CASE Board(t).type = "PROPERTY" ->
            IF tileAt(s.tiles, t).houseCount = 0
               /\ checkOwnsGroup(ownerId, Board(t).group, s.tiles)
            THEN Board(t).rent[tileAt(s.tiles, t).houseCount + 1] * 2
            ELSE Board(t).rent[tileAt(s.tiles, t).houseCount + 1]
      [] Board(t).type = "STATION" ->
            StationBaseRent * ownedInGroup(s.tiles, "station", ownerId)
      [] Board(t).type = "UTILITY" ->
            IF ownedInGroup(s.tiles, "utility", ownerId) = 2
            THEN (s.dice[1] + s.dice[2]) * 10
            ELSE (s.dice[1] + s.dice[2]) * 4

\* a variant of rentDue that counts the first die twice and the second
\* die not at all
rentDue_firstDie(s, t, ownerId) ==
    CASE Board(t).type = "PROPERTY" ->
            IF tileAt(s.tiles, t).houseCount = 0
               /\ checkOwnsGroup(ownerId, Board(t).group, s.tiles)
            THEN Board(t).rent[tileAt(s.tiles, t).houseCount + 1] * 2
            ELSE Board(t).rent[tileAt(s.tiles, t).houseCount + 1]
      [] Board(t).type = "STATION" ->
            StationBaseRent * Pow2(ownedInGroup(s.tiles, "station", ownerId) - 1)
      [] Board(t).type = "UTILITY" ->
            IF ownedInGroup(s.tiles, "utility", ownerId) = 2
            THEN (s.dice[1] + s.dice[1]) * 10
            ELSE (s.dice[1] + s.dice[1]) * 4

\* rent of tile t owed to ownerId (lines 1452-1470)
rentDue(s, t, ownerId) ==
    CASE Board(t).type = "PROPERTY" ->
            IF tileAt(s.tiles, t).houseCount = 0
               /\ checkOwnsGroup(ownerId, Board(t).group, s.tiles)
            THEN Board(t).rent[tileAt(s.tiles, t).houseCount + 1] * 2
            ELSE Board(t).rent[tileAt(s.tiles, t).houseCount + 1]
      [] Board(t).type = "STATION" ->
            StationBaseRent * Pow2(ownedInGroup(s.tiles, "station", ownerId) - 1)
      [] Board(t).type = "UTILITY" ->
            IF ownedInGroup(s.tiles, "utility", ownerId) = 2
            THEN (s.dice[1] + s.dice[2]) * 10
            ELSE (s.dice[1] + s.dice[2]) * 4

\* a variant of payRent that credits the owner and leaves the payer's
\* balance alone
payRent_ownerOnly(s, playerId, ownerId, rent, isDouble) ==
    LET oIdx == PIdx(s, ownerId)
    IN  [AddLog(s, Log("rent", "danger", playerId, ownerId, rent))
            EXCEPT !.players[oIdx].money = @ + rent,
                   !.phase = afterLandingPhase(isDouble),
                   !.waitingForDoublesTurn = isDouble]

\* the log entries that precede the rent entry
rentLogs(s, t, ownerId) ==
    CASE Board(t).type = "PROPERTY" ->
            IF tileAt(s.tiles, t).houseCount = 0
               /\ checkOwnsGroup(ownerId, Board(t).group, s.tiles)
            THEN AddLog(s, Log("rentDoubled", "warning", ownerId, NoPlayer, 0))
            ELSE s
      [] Board(t).type = "STATION" -> s
      [] Board(t).type = "UTILITY" ->
            AddLog(s, Log("utilityFee", "info", NoPlayer, NoPlayer,
                          s.dice[1] + s.dice[2]))

payRent(s, playerId, ownerId, rent, isDouble) ==
    LET pIdx == PIdx(s, playerId)
        oIdx == PIdx(s, ownerId)
        s1 == AddLog(s, Log("rent", "danger", playerId, ownerId, rent))
        paid == [s1 EXCEPT !.players[pIdx].money = @ - rent,
                           !.players[oIdx].money = @ + rent]
    IN  IF paid.players[pIdx].money < 0
        THEN LET broke == [AddLog(paid, Log("bankrupt", "danger", playerId, NoPlayer, 0))
                             EXCEPT !.players[pIdx].bankrupt = TRUE]
             IN  IF Len(activePlayers(broke.players)) <= 1
                 THEN [broke EXCEPT !.winner = FirstActive(broke.players),
                                    !.phase = "GAME_OVER"]
                 ELSE [broke EXCEPT !.tiles = releaseTiles(@, playerId),
                                    !.phase = "END_TURN",
                                    !.waitingForDoublesTurn = FALSE]
        ELSE [paid EXCEPT !.phase = afterLandingPhase(isDouble),
                          !.waitingForDoublesTurn = isDouble]

\* a variant of offerPurchase that sells the tile to the player at once
offerPurchase_sold(s, playerId, isDouble) ==
    LET i == PIdx(s, playerId)
        t == s.players[i].position
    IN  [s EXCEPT !.players[i].money = @ - Board(t).price,
                  !.players[i].properties = Append(@, t),
                  !.tiles = setTile(@, t, [tileAt(@, t) EXCEPT !.ownerId = playerId]),
                  !.phase = afterLandingPhase(isDouble),
                  !.waitingForDoublesTurn = isDouble]

\* the landing on a tile nobody owns (lines 1494-1497)
offerPurchase(s, playerId, isDouble) ==
    [s EXCEPT !.phase = "ACTION", !.waitingForDoublesTurn = isDouble]

handleLanding(s0, playerId, isDouble, ci) ==
    IF ~HasPlayer(s0, playerId) THEN s0
    ELSE
    LET i == PIdx(s0, playerId)
        t == s0.players[i].position
        type == Board(t).type
        ownerId == tileAt(s0.tiles, t).ownerId
        s == AddLog(s0, Log("arrived", "info", playerId, NoPlayer, t))
        rest == [s EXCEPT !.phase = afterLandingPhase(isDouble),
                          !.waitingForDoublesTurn = isDouble]
    IN  IF type = "GO_TO_JAIL"
        THEN [AddLog(s, Log("goToJail", "danger", playerId, NoPlayer, 0))
                EXCEPT !.players[i] = sendToJail(@),
                       !.phase = "END_TURN",
                       !.waitingForDoublesTurn = FALSE]
        ELSE IF type \in {"CHANCE", "COMMUNITY_CHEST"}
        THEN applyChanceEffect([s EXCEPT !.currentCard = ci,
                                         !.phase = "SHOWING_CARD"],
                               playerId, ci, isDouble)
        ELSE IF type \in {"PROPERTY", "STATION", "UTILITY"}
                /\ ownerId # NoPlayer /\ ownerId # playerId
                /\ HasPlayer(s, ownerId) /\ ~s.players[PIdx(s, ownerId)].bankrupt
        THEN payRent(rentLogs(s, t, ownerId), playerId, ownerId,
                     rentDue(s, t, ownerId), isDouble)
        ELSE IF type \in {"PROPERTY", "STATION", "UTILITY"} /\ ownerId = NoPlayer
        THEN offerPurchase(s, playerId, isDouble)
        ELSE IF type = "TAX"
        THEN LET tax == IF Board(t).price # 0 THEN Board(t).price ELSE DefaultTax
             IN  [AddLog(rest, Log("tax", "danger", playerId, NoPlayer, tax))
                    EXCEPT !.players[i].money = @ - tax]
        ELSE rest

(***************************************************************************)
(* Turn Engine.                                                            *)
(***************************************************************************)
\* a variant of advance that pays the bonus for passing the start tile and
\* not for stopping on it
advance_passOnly(p, steps) ==
    LET raw == p.position + steps
    IN  IF raw >= BoardSize
        THEN [p EXCEPT !.position = raw - BoardSize,
                       !.money = IF raw > BoardSize THEN @ + PassStartBonus ELSE @]
        ELSE IF raw < 0 THEN [p EXCEPT !.position = raw + BoardSize]
        ELSE [p EXCEPT !.position = raw]

\* the wraparound and pass-start bonus of a dice move (lines 1397-1406)
advance(p, steps) ==
    LET raw == p.position + steps
    IN  IF raw >= BoardSize
        THEN [p EXCEPT !.position = raw - BoardSize, !.money = @ + PassStartBonus]
        ELSE IF raw < 0 THEN [p EXCEPT !.position = raw + BoardSize]
        ELSE [p EXCEPT !.position = raw]

movePlayer(s, steps, playerId, isDouble, ci) ==
    LET i == PIdx(s, playerId)
        crossed == s.players[i].position + steps >= BoardSize
        s1 == IF crossed
              THEN AddLog(s, Log("passedStart", "success", playerId, NoPlayer,
                                 PassStartBonus))
              ELSE s
    IN  handleLanding([s1 EXCEPT !.players[i] = advance(@, steps)],
                      playerId, isDouble, ci)

\* a variant of nextDoublesCount that counts a double twice
nextDoublesCount_twice(p, isDouble) ==
    IF isDouble THEN p.consecutiveDoubles + 2 ELSE 0

\* a variant of nextDoublesCount that a non-double does not reset
nextDoublesCount_noReset(p, isDouble) ==
    IF isDouble THEN p.consecutiveDoubles + 1 ELSE p.consecutiveDoubles + 1

\* the counter a free player's roll would reach (lines 1367-1369)
nextDoublesCount(p, isDouble) ==
    IF isDouble THEN p.consecutiveDoubles + 1 ELSE 0

processRoll(s0, pid, d1, d2, ci) ==
    LET total == d1 + d2
        isDouble == d1 = d2
        i == PIdx(s0, pid)
        p == s0.players[i]
        s == [s0 EXCEPT !.dice = <<d1, d2>>, !.waitingForDoublesTurn = FALSE]
    IN  IF p.isInJail
        THEN IF isDouble
             THEN movePlayer(
                    [AddLog(s, Log("jailDouble", "success", pid, NoPlayer, total))
                        EXCEPT !.players[i] = leaveJail(@)],
                    total, pid, FALSE, ci)
             ELSE IF p.jailTurns >= MaxJailTurns
             THEN movePlayer(
                    [AddLog(s, Log("jailForcedBail", "warning", pid, NoPlayer, BailFee))
                        EXCEPT !.players[i] = [leaveJail(@) EXCEPT !.money = @ - BailFee]],
                    total, pid, FALSE, ci)
             ELSE [AddLog(s, Log("jailFailed", "warning", pid, NoPlayer, total))
                     EXCEPT !.players[i].jailTurns = @ + 1,
                            !.players[i].consecutiveDoubles = 0,
                            !.phase = "END_TURN"]
        ELSE IF nextDoublesCount(p, isDouble) = SpeedingDoubles
        THEN [AddLog(s, Log("speeding", "danger", pid, NoPlayer, 0))
                EXCEPT !.players[i] = sendToJail(@),
                       !.phase = "END_TURN"]
        ELSE movePlayer(
                [AddLog(s, Log("rolled", "info", pid, NoPlayer, total))
                    EXCEPT !.players[i].consecutiveDoubles =
                                nextDoublesCount(p, isDouble)],
                total, pid, isDouble, ci)

(***************************************************************************)
(* Action Dispatcher, host side.                                           *)
(***************************************************************************)
\* a NetworkAction; rnd are the random draws a ROLL consumes
Action(type, playerId) == [type |-> type, playerId |-> playerId]

Rnd(d1, d2, ci) == [d1 |-> d1, d2 |-> d2, ci |-> ci]

\* a variant of rejects without the turn check
rejects_unknownOnly(prevState, action) ==
    ~HasPlayer(prevState, action.playerId)

\* step 1 of executeGameLogic: the updater returns prevState untouched
rejects(prevState, action) ==
    \/ ~HasPlayer(prevState, action.playerId)
    \/ /\ prevState.players[prevState.currentPlayerIndex + 1].id # action.playerId
       /\ action.type # "SURRENDER"

\* step 2 of executeGameLogic: the switch over the action type
applyAction(s, action, rnd) ==
    CASE action.type = "ROLL" -> processRoll(s, action.playerId, rnd.d1, rnd.d2, rnd.ci)
      [] action.type = "BUY" -> processBuy(s, action.playerId)
      [] action.type = "PASS" -> processPass(s, action.playerId)
      [] action.type = "PAY_BAIL" -> processPayBail(s, action.playerId)
      [] action.type = "UPGRADE" -> processUpgrade(s, action.playerId)
      [] action.type = "END_TURN" -> processEndTurn(s)
      [] action.type = "SURRENDER" -> processSurrender(s, action.playerId)

\* the state the updater returns
executeGameLogic(prevState, action, rnd) ==
    IF rejects(prevState, action) THEN prevState
    ELSE applyAction(prevState, action, rnd)

(***************************************************************************)
(* Replication Protocol: state of the participants and of the relay.       *)
(***************************************************************************)
VARIABLES
    gs,         \* gs[p]: the GameState held by participant p (useState)
    c2s,        \* c2s[p]: messages p's socket has emitted, not yet handled by the relay
    s2c,        \* s2c[p]: messages the relay has emitted to p's socket, not yet handled
    room,       \* the relay's rooms[RoomId]
    aiTimers,   \* runAITurn continuations the host has started and not finished
    nInputs,    \* per participant, the intents and tile clicks so far
    nAI,        \* intents dispatched so far by the AI hook
    lastExec,   \* history: the last action handed to the host's executeGameLogic
    hostHist,   \* history: the authoritative states the host has produced, in order
    adopted     \* history: adopted[p] is the place in hostHist of the state p last adopted

vars == <<gs, c2s, s2c, room, aiTimers, nInputs, nAI, lastExec, hostHist,
          adopted>>

\* the user of participant p may still act
mayInput(p) == nInputs[p] < (IF p = Host THEN MaxHostInputs ELSE MaxGuestInputs)

PlayPhases == {"ROLLING", "MOVING", "ACTION", "SHOWING_CARD", "END_TURN"}

NoSocket == "null"

\* the socket state seen by the closures of the mount effect, which are the
\* closures of the first render: useState<Socket | null>(null)
mountClosureSocket == NoSocket

\* the socket state seen by the closures of a render after setSocket
renderClosureSocket == Host

\* the fields the snapshot is meant to replicate
Auth(s) ==
    [players |-> s.players, tiles |-> s.tiles, dice |-> s.dice, phase |-> s.phase,
     currentPlayerIndex |-> s.currentPlayerIndex, logs |-> s.logs,
     currentCard |-> s.currentCard, winner |-> s.winner,
     waitingForDoublesTurn |-> s.waitingForDoublesTurn]

\* useState's initial GameState after login and room_joined
lobbyState(p) ==
    [players |-> <<>>,
     currentPlayerIndex |-> 0,
     tiles |-> noTiles,
     dice |-> <<1, 1>>,
     phase |-> "ROOM_SETUP",
     logs |-> <<>>,
     winner |-> NoPlayer,
     currentCard |-> NoCard,
     selectedTileId |-> NoTile,
     waitingForDoublesTurn |-> FALSE,
     currentUser |-> UserOf(p),
     roomId |-> RoomId,
     isHost |-> (p = Host)]

\* the Player built for a roster seat
gamePlayer(seat) ==
    [id |-> seat.id, isAI |-> seat.isAI, money |-> InitialMoney, position |-> 0,
     isInJail |-> FALSE, jailTurns |-> 0, consecutiveDoubles |-> 0,
     properties |-> <<>>, bankrupt |-> FALSE]

\* the initialState handleStartGameRequest sends
initialState ==
    [players |-> [i \in 1..Len(Roster) |-> gamePlayer(Roster[i])],
     currentPlayerIndex |-> 0,
     tiles |-> noTiles,
     dice |-> <<1, 1>>,
     phase |-> "ROLLING",
     logs |-> <<Log("init", "info", NoPlayer, NoPlayer, 0)>>,
     winner |-> NoPlayer,
     currentCard |-> NoCard,
     selectedTileId |-> NoTile,
     waitingForDoublesTurn |-> FALSE,
     currentUser |-> NoPlayer,
     roomId |-> RoomId,
     isHost |-> TRUE]

Init ==
    /\ gs = [p \in Procs |-> lobbyState(p)]
    /\ c2s = [p \in Procs |-> <<>>]
    /\ s2c = [p \in Procs |-> <<>>]
    /\ room = [socketHostId |-> Host, status |-> "WAITING", members |-> Procs]
    /\ aiTimers = <<>>
    /\ nInputs = [p \in Procs |-> 0]
    /\ nAI = 0
    /\ lastExec = [n |-> 0, action |-> Action("NONE", NoPlayer), via |-> "none",
                   applied |-> FALSE, emitted |-> FALSE]
    /\ hostHist = <<>>
    /\ adopted = [p \in Procs |-> 0]

(***************************************************************************)
(* Socket plumbing.                                                        *)
(***************************************************************************)
\* a variant of emit that puts the message ahead of the waiting ones
emit_first(queue, m) == <<m>> \o queue

\* socket.emit: the transport keeps the order of emission
emit(queue, m) == Append(queue, m)

\* the exploration lets a socket direction hold MaxInFlight messages
hasRoom(queue) == Len(queue) < MaxInFlight

\* broadcastState's guard
broadcasts(socket, newState) == socket # NoSocket /\ newState.roomId # NoPlayer

\* io.to(room) / socket.to(room): the sockets a room emission reaches
roomSockets(r, except) == r.members \ except

(***************************************************************************)
(* Decision provider (src/services/geminiService.ts).                      *)
(***************************************************************************)
\* a variant of getAIDecision that answers PAY_JAIL to every question
getAIDecision_payJail(tiles, player) == "PAY_JAIL"

\* the answer to a purchase decision: gameState.tiles is the tile array
\* of the render the hook ran in, player the current player's record
getAIDecision(tiles, player) ==
    LET t == player.position
        price == Board(t).price
        completesSet ==
            ownedInGroup(tiles, Board(t).group, player.id) + 1
              = Cardinality({x \in TileIds : Board(x).group = Board(t).group
                                               /\ Board(x).group # "none"})
        reserveCash ==
            IF completesSet THEN 50
            ELSE IF Board(t).group \in {"orange", "red"} THEN 150
            ELSE IF Board(t).type = "STATION" THEN 200
            ELSE 300
    IN  IF Board(t).type \notin {"PROPERTY", "STATION", "UTILITY"} THEN "PASS"
        ELSE IF player.money < price THEN "PASS"
        ELSE IF player.money >= price + reserveCash THEN "BUY"
        ELSE IF completesSet /\ player.money > price THEN "BUY"
        ELSE "PASS"

(***************************************************************************)
(* AI hook (host only).                                                    *)
(***************************************************************************)
effectDeps(s) == <<s.phase, s.currentPlayerIndex, s.waitingForDoublesTurn, s.isHost>>

\* the effect body up to runAITurn(): the timers after a render that
\* replaced state old by state new
aiEffect(old, new, timers) ==
    IF /\ effectDeps(old) # effectDeps(new)
       /\ new.isHost
       /\ new.phase \in {"ROLLING", "ACTION", "END_TURN"}
       /\ Len(new.players) > 0
       /\ new.players[new.currentPlayerIndex + 1].isAI
       /\ ~new.players[new.currentPlayerIndex + 1].bankrupt
    THEN Append(timers, [phase |-> new.phase,
                         pid |-> new.players[new.currentPlayerIndex + 1].id,
                         stage |-> "wait",
                         tiles |-> IF new.phase = "ACTION"
                                   THEN new.tiles ELSE noTiles])
    ELSE timers

dropTimer(timers, k) ==
    [j \in 1..(Len(timers) - 1) |-> IF j < k THEN timers[j] ELSE timers[j + 1]]

(***************************************************************************)
(* Host: one call of executeGameLogic through the closure that holds       *)
(* `socket`.  The updater either returns prevState (nothing is emitted) or *)
(* the new state, after broadcastState.                                    *)
(***************************************************************************)
snapshotMsg(newState, hidx) ==
    [type |-> "update_game_state", roomId |-> newState.roomId,
     state |-> newState, hidx |-> hidx]

hostExecute(action, rnd, socket, via, timers) ==
    LET prev == gs[Host]
        new == executeGameLogic(prev, action, rnd)
        applied == ~rejects(prev, action)
        sent == applied /\ broadcasts(socket, new)
    IN  /\ hasRoom(c2s[Host])
        /\ gs' = [gs EXCEPT ![Host] = new]
        /\ c2s' = IF sent
                  THEN [c2s EXCEPT ![Host] =
                            emit(@, snapshotMsg(new, Len(hostHist) + 1))]
                  ELSE c2s
        /\ hostHist' = IF applied THEN Append(hostHist, Auth(new)) ELSE hostHist
        /\ aiTimers' = aiEffect(prev, new, timers)
        /\ lastExec' = [n |-> lastExec.n + 1, action |-> action, via |-> via,
                        applied |-> applied, emitted |-> sent]

\* the random draws an action can consume
Rnds(type) ==
    IF type = "ROLL"
    THEN {Rnd(d1, d2, ci) : d1 \in DieFaces, d2 \in DieFaces, ci \in CardIds}
    ELSE {Rnd(1, 1, 1)}

\* the game screen is rendered, so its buttons and tiles can be clicked
onGameScreen(s) == s.phase \in PlayPhases /\ Len(s.players) > 0

(***************************************************************************)
(* Participant actions.                                                    *)
(***************************************************************************)
\* handleStartGameRequest
HostStartGame ==
    /\ gs[Host].phase = "ROOM_SETUP"
    /\ gs[Host].roomId # NoPlayer /\ gs[Host].isHost
    /\ hostHist = <<>>
    /\ c2s' = [c2s EXCEPT ![Host] =
                  emit(@, [type |-> "start_game", roomId |-> gs[Host].roomId,
                           state |-> initialState, hidx |-> 1])]
    /\ hostHist' = <<Auth(initialState)>>
    /\ UNCHANGED <<gs, s2c, room, aiTimers, nInputs, nAI, lastExec, adopted>>

\* dispatchAction on the host
HostDispatch(type) ==
    /\ mayInput(Host)
    /\ gs[Host].isHost /\ gs[Host].currentUser # NoPlayer
    /\ onGameScreen(gs[Host])
    /\ nInputs' = [nInputs EXCEPT ![Host] = @ + 1]
    /\ \E rnd \in Rnds(type) :
          hostExecute(Action(type, gs[Host].currentUser), rnd,
                      renderClosureSocket, "local", aiTimers)
    /\ UNCHANGED <<s2c, room, nAI, adopted>>

\* a variant of dispatchedState that applies the intent on the replica
dispatchedState_applied(s, action) ==
    executeGameLogic(s, action, Rnd(1, 1, 1))

\* the state a non-host holds after dispatchAction
dispatchedState(s, action) == s

\* dispatchAction on a non-host
GuestDispatch(p, type) ==
    /\ mayInput(p)
    /\ ~gs[p].isHost /\ gs[p].currentUser # NoPlayer
    /\ onGameScreen(gs[p])
    /\ hasRoom(c2s[p])
    /\ nInputs' = [nInputs EXCEPT ![p] = @ + 1]
    /\ gs' = [gs EXCEPT ![p] = dispatchedState(@, Action(type, gs[p].currentUser))]
    /\ c2s' = [c2s EXCEPT ![p] =
                  emit(@, [type |-> "client_action", roomId |-> gs[p].roomId,
                           action |-> Action(type, gs[p].currentUser)])]
    /\ UNCHANGED <<s2c, room, aiTimers, nAI, lastExec, hostHist, adopted>>

\* TileComponent onClick and the close button of the tile card
SelectTile(p, t) ==
    /\ onGameScreen(gs[p])
    /\ gs[p].selectedTileId # t
    /\ mayInput(p)
    /\ nInputs' = [nInputs EXCEPT ![p] = @ + 1]
    /\ gs' = [gs EXCEPT ![p].selectedTileId = t]
    /\ UNCHANGED <<c2s, s2c, room, aiTimers, nAI, lastExec, hostHist, adopted>>

\* game_started listener
startedState(prev, started) ==
    [started EXCEPT !.currentUser = prev.currentUser,
                    !.roomId = prev.roomId,
                    !.isHost = prev.isHost]

RecvGameStarted(p) ==
    /\ s2c[p] # <<>> /\ Head(s2c[p]).type = "game_started"
    /\ gs' = [gs EXCEPT ![p] = startedState(@, Head(s2c[p]).state)]
    /\ s2c' = [s2c EXCEPT ![p] = Tail(@)]
    /\ adopted' = [adopted EXCEPT ![p] = Head(s2c[p]).hidx]
    /\ aiTimers' = IF p = Host
                   THEN aiEffect(gs[p], startedState(gs[p], Head(s2c[p]).state), aiTimers)
                   ELSE aiTimers
    /\ UNCHANGED <<c2s, room, nInputs, nAI, lastExec, hostHist>>

\* a variant of syncedState that keeps the replica's dice
syncedState_keepDice(prev, synced) ==
    IF ~prev.isHost
    THEN [synced EXCEPT !.currentUser = prev.currentUser,
                        !.roomId = prev.roomId,
                        !.isHost = FALSE,
                        !.dice = prev.dice]
    ELSE prev

\* game_state_sync listener
syncedState(prev, synced) ==
    IF ~prev.isHost
    THEN [synced EXCEPT !.currentUser = prev.currentUser,
                        !.roomId = prev.roomId,
                        !.isHost = FALSE]
    ELSE prev

RecvGameStateSync(p) ==
    /\ s2c[p] # <<>> /\ Head(s2c[p]).type = "game_state_sync"
    /\ gs' = [gs EXCEPT ![p] = syncedState(@, Head(s2c[p]).state)]
    /\ s2c' = [s2c EXCEPT ![p] = Tail(@)]
    /\ adopted' = IF ~gs[p].isHost
                  THEN [adopted EXCEPT ![p] = Head(s2c[p]).hidx]
                  ELSE adopted
    /\ UNCHANGED <<c2s, room, aiTimers, nInputs, nAI, lastExec, hostHist>>

\* receive_action listener and handleReceivedAction
RecvAction(p) ==
    /\ s2c[p] # <<>> /\ Head(s2c[p]).type = "receive_action"
    /\ s2c' = [s2c EXCEPT ![p] = Tail(@)]
    /\ IF gs[p].isHost
       THEN \E rnd \in Rnds(Head(s2c[p]).action.type) :
               hostExecute(Head(s2c[p]).action, rnd, mountClosureSocket,
                           "relay", aiTimers)
       ELSE UNCHANGED <<gs, c2s, aiTimers, lastExec, hostHist>>
    /\ UNCHANGED <<room, nInputs, nAI, adopted>>

(***************************************************************************)
(* AI hook: the continuations of runAITurn.                                *)
(***************************************************************************)
\* phase ROLLING: PAY_BAIL first when jailed and rich, then ROLL
AIRoll(k) ==
    /\ k \in 1..Len(aiTimers) /\ aiTimers[k].phase = "ROLLING"
    /\ nAI < MaxAIIntents
    /\ nAI' = nAI + 1
    /\ LET tm == aiTimers[k]
           live == gs[Host].players[PIdx(gs[Host], tm.pid)]
       IN  IF tm.stage = "wait" /\ live.isInJail /\ live.money >= AIBailThreshold
           THEN hostExecute(Action("PAY_BAIL", tm.pid), Rnd(1, 1, 1),
                            renderClosureSocket, "ai",
                            [aiTimers EXCEPT ![k].stage = "bailed"])
           ELSE \E rnd \in Rnds("ROLL") :
                   hostExecute(Action("ROLL", tm.pid), rnd, renderClosureSocket,
                               "ai", dropTimer(aiTimers, k))
    /\ UNCHANGED <<s2c, room, nInputs, adopted>>

\* phase ACTION: the decision provider is asked; BUY is dispatched as
\* BUY, PAY_JAIL as nothing, every other answer as PASS
AIDecide(k) ==
    /\ k \in 1..Len(aiTimers) /\ aiTimers[k].phase = "ACTION"
    /\ LET tm == aiTimers[k]
           live == gs[Host].players[PIdx(gs[Host], tm.pid)]
           decision == getAIDecision(tm.tiles, live)
       IN  IF decision = "PAY_JAIL"
           THEN /\ aiTimers' = dropTimer(aiTimers, k)
                /\ UNCHANGED <<gs, c2s, nAI, lastExec, hostHist>>
           ELSE /\ nAI < MaxAIIntents
                /\ nAI' = nAI + 1
                /\ hostExecute(Action(IF decision = "BUY" THEN "BUY" ELSE "PASS",
                                      tm.pid),
                               Rnd(1, 1, 1), renderClosureSocket, "ai",
                               dropTimer(aiTimers, k))
    /\ UNCHANGED <<s2c, room, nInputs, adopted>>

\* phase END_TURN
AIEndTurn(k) ==
    /\ k \in 1..Len(aiTimers) /\ aiTimers[k].phase = "END_TURN"
    /\ nAI < MaxAIIntents
    /\ nAI' = nAI + 1
    /\ hostExecute(Action("END_TURN", aiTimers[k].pid), Rnd(1, 1, 1),
                   renderClosureSocket, "ai", dropTimer(aiTimers, k))
    /\ UNCHANGED <<s2c, room, nInputs, adopted>>

(***************************************************************************)
(* Relay (src/server.js).                                                  *)
(***************************************************************************)
\* the queues after the relay emits m to every socket of `to`
relayTo(queues, to, m) ==
    [q \in Procs |-> IF q \in to THEN emit(queues[q], m) ELSE queues[q]]

ServerStartGame(p) ==
    /\ c2s[p] # <<>> /\ Head(c2s[p]).type = "start_game"
    /\ c2s' = [c2s EXCEPT ![p] = Tail(@)]
    /\ IF Head(c2s[p]).roomId = RoomId /\ room.socketHostId = p
       THEN /\ room' = [room EXCEPT !.status = "PLAYING"]
            /\ s2c' = relayTo(s2c, roomSockets(room, {}),
                              [type |-> "game_started",
                               state |-> Head(c2s[p]).state,
                               hidx |-> Head(c2s[p]).hidx])
       ELSE UNCHANGED <<room, s2c>>
    /\ UNCHANGED <<gs, aiTimers, nInputs, nAI, lastExec, hostHist, adopted>>

ServerUpdateGameState(p) ==
    /\ c2s[p] # <<>> /\ Head(c2s[p]).type = "update_game_state"
    /\ \A q \in roomSockets(room, {p}) : hasRoom(s2c[q])
    /\ c2s' = [c2s EXCEPT ![p] = Tail(@)]
    /\ s2c' = relayTo(s2c,
                      IF Head(c2s[p]).roomId = RoomId
                      THEN roomSockets(room, {p}) ELSE {},
                      [type |-> "game_state_sync",
                       state |-> Head(c2s[p]).state,
                       hidx |-> Head(c2s[p]).hidx])
    /\ UNCHANGED <<gs, room, aiTimers, nInputs, nAI, lastExec, hostHist, adopted>>

ServerClientAction(p) ==
    /\ c2s[p] # <<>> /\ Head(c2s[p]).type = "client_action"
    /\ hasRoom(s2c[room.socketHostId])
    /\ c2s' = [c2s EXCEPT ![p] = Tail(@)]
    /\ s2c' = relayTo(s2c,
                      IF Head(c2s[p]).roomId = RoomId
                      THEN {room.socketHostId} ELSE {},
                      [type |-> "receive_action",
                       action |-> Head(c2s[p]).action])
    /\ UNCHANGED <<gs, room, aiTimers, nInputs, nAI, lastExec, hostHist, adopted>>

Next ==
    \/ HostStartGame
    \/ \E type \in ActionTypes : HostDispatch(type)
    \/ \E p \in Procs, type \in ActionTypes : GuestDispatch(p, type)
    \/ \E p \in Procs, t \in SelectableTiles \cup {NoTile} : SelectTile(p, t)
    \/ \E p \in Procs : RecvGameStarted(p)
    \/ \E p \in Procs : RecvGameStateSync(p)
    \/ \E p \in Procs : RecvAction(p)
    \/ \E k \in 1..Len(aiTimers) : AIRoll(k)
    \/ \E k \in 1..Len(aiTimers) : AIDecide(k)
    \/ \E k \in 1..Len(aiTimers) : AIEndTurn(k)
    \/ \E p \in Procs : ServerStartGame(p)
    \/ \E p \in Procs : ServerUpdateGameState(p)
    \/ \E p \in Procs : ServerClientAction(p)

Spec == Init /\ [][Next]_vars

(***************************************************************************)
(* The engine on its own: the host's executeGameLogic under every order in *)
(* which intents can reach it, without the transport.  The game has        *)
(* started and game_started has been delivered to both participants.       *)
(***************************************************************************)
InitEngine ==
    /\ gs = [p \in Procs |-> startedState(lobbyState(p), initialState)]
    /\ c2s = [p \in Procs |-> <<>>]
    /\ s2c = [p \in Procs |-> <<>>]
    /\ room = [socketHostId |-> Host, status |-> "PLAYING", members |-> Procs]
    /\ aiTimers = <<>>
    /\ nInputs = [p \in Procs |-> 0]
    /\ nAI = 0
    /\ lastExec = [n |-> 0, action |-> Action("NONE", NoPlayer), via |-> "none",
                   applied |-> FALSE, emitted |-> FALSE]
    /\ hostHist = <<Auth(initialState)>>
    /\ adopted = [p \in Procs |-> 1]

\* setGameState(prevState => ...) of executeGameLogic, for one intent
engineExecute(action, rnd, via) ==
    /\ lastExec.n < MaxEngineSteps
    /\ gs' = [gs EXCEPT ![Host] = executeGameLogic(@, action, rnd)]
    /\ lastExec' = [n |-> lastExec.n + 1, action |-> action, via |-> via,
                    applied |-> ~rejects(gs[Host], action), emitted |-> FALSE]
    /\ UNCHANGED <<c2s, s2c, room, aiTimers, nInputs, nAI, hostHist, adopted>>

\* an intent of a human player: dispatchAction on the host, or a
\* client_action of the guest handed over by receive_action
EngineIntent(p, type) ==
    /\ onGameScreen(gs[Host])
    /\ \E rnd \in Rnds(type) :
          engineExecute(Action(type, UserOf(p)), rnd,
                        IF p = Host THEN "local" ELSE "relay")

\* the intents runAITurn dispatches for the phase it runs in
aiIntents(s) ==
    LET cur == s.players[s.currentPlayerIndex + 1]
    IN  IF ~(cur.isAI /\ ~cur.bankrupt) THEN {}
        ELSE CASE s.phase = "ROLLING" ->
                    IF cur.isInJail /\ cur.money >= AIBailThreshold
                    THEN {Action("PAY_BAIL", cur.id)}
                    ELSE {Action("ROLL", cur.id)}
               [] s.phase = "ACTION" ->
                    {Action("BUY", cur.id), Action("PASS", cur.id)}
               [] s.phase = "END_TURN" -> {Action("END_TURN", cur.id)}
               [] OTHER -> {}

EngineAI ==
    \E action \in aiIntents(gs[Host]) :
        \E rnd \in Rnds(action.type) : engineExecute(action, rnd, "ai")

\* a tile click on the host
EngineSelect(t) ==
    /\ mayInput(Host)
    /\ gs[Host].selectedTileId # t
    /\ nInputs' = [nInputs EXCEPT ![Host] = @ + 1]
    /\ gs' = [gs EXCEPT ![Host].selectedTileId = t]
    /\ UNCHANGED <<c2s, s2c, room, aiTimers, nAI, lastExec, hostHist, adopted>>

NextEngine ==
    \/ \E p \in Procs, type \in ActionTypes : EngineIntent(p, type)
    \/ EngineAI
    \/ \E t \in SelectableTiles : EngineSelect(t)

EngineSpec == InitEngine /\ [][NextEngine]_vars

(***************************************************************************)
(* The rules in the middle of a game: executeGameLogic applied to game     *)
(* states in which tiles are held and built on, a player waits in jail, a  *)
(* balance is low or a player has already left the game.  The human player *)
(* h is to roll; the AI player a holds tiles; g is in the game or has      *)
(* surrendered.                                                            *)
(***************************************************************************)
\* the tiles player a holds
Portfolios ==
    { {}, {3}, {1, 3}, {13}, {5}, {5, 15}, {5, 15, 25}, {5, 15, 25, 35},
      {12}, {12, 28} }

\* the tiles player h holds
MoverPortfolios == { {}, {6} }

\* houseCount of the properties player a holds
HouseCounts == {0, 1, MaxHouses}

\* the tile player h stands on
StartPositions == {0, 2, 9, JailPosition, 12, 28, 34, 38}

\* the balance of player h
MoverBalances == {30, InitialMoney}

\* the faces the two dice of a roll show
RuleDice == {<<1, 1>>, <<1, 2>>, <<3, 4>>, <<6, 6>>}

RECURSIVE tileList(_)
\* the properties array of a player who bought the tiles in board order
tileList(owned) ==
    IF owned = {} THEN <<>>
    ELSE LET t == CHOOSE x \in owned : \A y \in owned : x <= y
         IN  <<t>> \o tileList(owned \ {t})

\* the tile array in which a holds aTiles with houses buildings on each
\* property, and h holds hTiles
heldTiles(aTiles, houses, hTiles) ==
    [t \in aTiles \cup hTiles |->
        IF t \in aTiles
        THEN [ownerId |-> "a",
              houseCount |-> IF Board(t).type = "PROPERTY" THEN houses ELSE 0]
        ELSE [ownerId |-> "h", houseCount |-> 0]]

\* the GameState of the host at the start of a turn of player h
midGame(aTiles, houses, hTiles, pos, jailed, turns, money, gOut) ==
    LET h == [gamePlayer(Roster[1]) EXCEPT
                !.money = money, !.position = pos, !.isInJail = jailed,
                !.jailTurns = turns, !.properties = tileList(hTiles)]
        a == [gamePlayer(Roster[2]) EXCEPT !.properties = tileList(aTiles)]
        g == IF gOut THEN surrenderedPlayer(gamePlayer(Roster[3]))
             ELSE gamePlayer(Roster[3])
    IN  [initialState EXCEPT !.players = <<h, a, g>>,
                             !.tiles = heldTiles(aTiles, houses, hTiles)]

InitRules ==
    /\ \E aTiles \in Portfolios, houses \in HouseCounts,
          hTiles \in MoverPortfolios, pos \in StartPositions,
          jailed \in BOOLEAN, turns \in 0..MaxJailTurns,
          money \in MoverBalances, gOut \in BOOLEAN :
          /\ houses # 0 => \E t \in aTiles : Board(t).type = "PROPERTY"
          /\ jailed => pos = JailPosition
          /\ ~jailed => turns = 0
          /\ gs = [p \in Procs |->
                     startedState(lobbyState(p),
                                  midGame(aTiles, houses, hTiles, pos, jailed,
                                          turns, money, gOut))]
    /\ c2s = [p \in Procs |-> <<>>]
    /\ s2c = [p \in Procs |-> <<>>]
    /\ room = [socketHostId |-> Host, status |-> "PLAYING", members |-> Procs]
    /\ aiTimers = <<>>
    /\ nInputs = [p \in Procs |-> 0]
    /\ nAI = 0
    /\ lastExec = [n |-> 0, action |-> Action("NONE", NoPlayer), via |-> "none",
                   applied |-> FALSE, emitted |-> FALSE]
    /\ hostHist = <<Auth(gs[Host])>>
    /\ adopted = [p \in Procs |-> 1]

\* the random draws an action can consume
RuleRnds(type) ==
    IF type = "ROLL"
    THEN {Rnd(d[1], d[2], ci) : d \in RuleDice, ci \in CardIds}
    ELSE {Rnd(1, 1, 1)}

\* an intent of a human player, executed by the host
RulesIntent(p, type) ==
    /\ lastExec.n < MaxRuleSteps
    /\ onGameScreen(gs[Host])
    /\ \E rnd \in RuleRnds(type) :
          /\ gs' = [gs EXCEPT ![Host] =
                        executeGameLogic(@, Action(type, UserOf(p)), rnd)]
          /\ lastExec' = [n |-> lastExec.n + 1,
                          action |-> Action(type, UserOf(p)),
                          via |-> IF p = Host THEN "local" ELSE "relay",
                          applied |-> ~rejects(gs[Host], Action(type, UserOf(p))),
                          emitted |-> FALSE]
    /\ UNCHANGED <<c2s, s2c, room, aiTimers, nInputs, nAI, hostHist, adopted>>

NextRules == \E p \in Procs, type \in ActionTypes : RulesIntent(p, type)

RulesSpec == InitRules /\ [][NextRules]_vars

(***************************************************************************)
(* The rotation on its own: processEndTurn applied to rosters of two to    *)
(* four players under every distribution of the bankrupt flags and every   *)
(* position of the turn pointer.                                           *)
(***************************************************************************)
\* the seats of a full room: the roster and a second AI player
RotationSeats == Roster \o <<[id |-> "b", isAI |-> TRUE]>>

\* the GameState in which the first n seats play, the seats in out are
\* bankrupt, and the turn pointer is cur
rotationState(n, out, cur, phase, waiting) ==
    [initialState EXCEPT
        !.players = [i \in 1..n |->
                        IF i \in out
                        THEN surrenderedPlayer(gamePlayer(RotationSeats[i]))
                        ELSE gamePlayer(RotationSeats[i])],
        !.currentPlayerIndex = cur,
        !.phase = phase,
        !.waitingForDoublesTurn = waiting]

InitRotation ==
    /\ \E n \in 2..Len(RotationSeats) :
       \E out \in SUBSET (1..n), cur \in 0..(n - 1),
          phase \in {"ROLLING", "END_TURN"}, waiting \in BOOLEAN :
          /\ waiting => phase = "ROLLING"
          /\ gs = [p \in Procs |->
                     startedState(lobbyState(p),
                                  rotationState(n, out, cur, phase, waiting))]
    /\ c2s = [p \in Procs |-> <<>>]
    /\ s2c = [p \in Procs |-> <<>>]
    /\ room = [socketHostId |-> Host, status |-> "PLAYING", members |-> Procs]
    /\ aiTimers = <<>>
    /\ nInputs = [p \in Procs |-> 0]
    /\ nAI = 0
    /\ lastExec = [n |-> 0, action |-> Action("NONE", NoPlayer), via |-> "none",
                   applied |-> FALSE, emitted |-> FALSE]
    /\ hostHist = <<Auth(gs[Host])>>
    /\ adopted = [p \in Procs |-> 1]

\* the END_TURN intent of the player the turn pointer is on
RotationEndTurn ==
    LET action == Action("END_TURN",
                         gs[Host].players[gs[Host].currentPlayerIndex + 1].id)
    IN  /\ lastExec.n < MaxRotationSteps
        /\ onGameScreen(gs[Host])
        /\ gs' = [gs EXCEPT ![Host] = executeGameLogic(@, action, Rnd(1, 1, 1))]
        /\ lastExec' = [n |-> lastExec.n + 1, action |-> action, via |-> "local",
                        applied |-> ~rejects(gs[Host], action), emitted |-> FALSE]
        /\ UNCHANGED <<c2s, s2c, room, aiTimers, nInputs, nAI, hostHist, adopted>>

NextRotation == RotationEndTurn

RotationSpec == InitRotation /\ [][NextRotation]_vars

(***************************************************************************)
(* A turn from its roll to the answer of the purchase decision: the host   *)
(* executes up to MaxTurnSteps intents from the mid-game states in which   *)
(* nothing is built and g is still in the game.                            *)
(***************************************************************************)
\* the tiles player a holds at the start of the turn
TurnPortfolios == { {}, {12}, {5, 15} }

InitTurn ==
    /\ \E aTiles \in TurnPortfolios, hTiles \in MoverPortfolios,
          pos \in StartPositions, jailed \in BOOLEAN,
          turns \in 0..MaxJailTurns, money \in MoverBalances :
          /\ jailed => pos = JailPosition
          /\ ~jailed => turns = 0
          /\ gs = [p \in Procs |->
                     startedState(lobbyState(p),
                                  midGame(aTiles, 0, hTiles, pos, jailed,
                                          turns, money, FALSE))]
    /\ c2s = [p \in Procs |-> <<>>]
    /\ s2c = [p \in Procs |-> <<>>]
    /\ room = [socketHostId |-> Host, status |-> "PLAYING", members |-> Procs]
    /\ aiTimers = <<>>
    /\ nInputs = [p \in Procs |-> 0]
    /\ nAI = 0
    /\ lastExec = [n |-> 0, action |-> Action("NONE", NoPlayer), via |-> "none",
                   applied |-> FALSE, emitted |-> FALSE]
    /\ hostHist = <<Auth(gs[Host])>>
    /\ adopted = [p \in Procs |-> 1]

\* an intent of a human player, executed by the host
TurnIntent(p, type) ==
    /\ lastExec.n < MaxTurnSteps
    /\ onGameScreen(gs[Host])
    /\ \E rnd \in RuleRnds(type) :
          /\ gs' = [gs EXCEPT ![Host] =
                        executeGameLogic(@, Action(type, UserOf(p)), rnd)]
          /\ lastExec' = [n |-> lastExec.n + 1,
                          action |-> Action(type, UserOf(p)),
                          via |-> IF p = Host THEN "local" ELSE "relay",
                          applied |-> ~rejects(gs[Host], Action(type, UserOf(p))),
                          emitted |-> FALSE]
    /\ UNCHANGED <<c2s, s2c, room, aiTimers, nInputs, nAI, hostHist, adopted>>

NextTurn == \E p \in Procs, type \in ActionTypes : TurnIntent(p, type)

TurnSpec == InitTurn /\ [][NextTurn]_vars

(***************************************************************************)
(* The AI hook on its own: the turn has just passed to the automated       *)
(* player a, the hook has run for that render, and only the hook's         *)
(* continuations, the relay and the replica act.  A started timer fires    *)
(* and the transport delivers, which the fairness conditions state.        *)
(***************************************************************************)
\* the balance of player a
AIBalances == {InitialMoney, 700}

\* the GameState of the host when the turn has passed to player a
aiTurn(money, jailed) ==
    LET a == [gamePlayer(Roster[2]) EXCEPT
                !.money = money, !.isInJail = jailed,
                !.position = IF jailed THEN JailPosition ELSE 0]
    IN  [initialState EXCEPT
            !.players = <<gamePlayer(Roster[1]), a, gamePlayer(Roster[3])>>,
            !.currentPlayerIndex = 1]

InitAI ==
    /\ \E money \in AIBalances, jailed \in BOOLEAN :
          /\ gs = [p \in Procs |->
                     startedState(lobbyState(p), aiTurn(money, jailed))]
          /\ aiTimers =
                aiEffect([startedState(lobbyState(Host), aiTurn(money, jailed))
                            EXCEPT !.currentPlayerIndex = 0, !.phase = "END_TURN"],
                         startedState(lobbyState(Host), aiTurn(money, jailed)),
                         <<>>)
    /\ c2s = [p \in Procs |-> <<>>]
    /\ s2c = [p \in Procs |-> <<>>]
    /\ room = [socketHostId |-> Host, status |-> "PLAYING", members |-> Procs]
    /\ nInputs = [p \in Procs |-> 0]
    /\ nAI = 0
    /\ lastExec = [n |-> 0, action |-> Action("NONE", NoPlayer), via |-> "none",
                   applied |-> FALSE, emitted |-> FALSE]
    /\ hostHist = <<Auth(gs[Host])>>
    /\ adopted = [p \in Procs |-> 1]

NextAI ==
    \/ \E k \in 1..Len(aiTimers) : AIRoll(k)
    \/ \E k \in 1..Len(aiTimers) : AIDecide(k)
    \/ \E k \in 1..Len(aiTimers) : AIEndTurn(k)
    \/ \E p \in Procs : ServerUpdateGameState(p)
    \/ \E p \in Procs : RecvGameStateSync(p)

AISpec ==
    /\ InitAI
    /\ [][NextAI]_vars
    /\ WF_vars(NextAI)

(***************************************************************************)
(* The relay facing any connected socket: besides the two clients of the   *)
(* room, a socket that speaks the relay's protocol directly.  io.on(       *)
(* "connection") registers the same handlers for every socket, and the     *)
(* handlers take roomId from the message.                                  *)
(***************************************************************************)
Intruder == "X"

Sockets == Procs \cup {Intruder}

\* a room id no room was created under
NoRoom == "nowhere"

\* a GameState the host never produced
forgedState == [initialState EXCEPT !.phase = "GAME_OVER", !.winner = "g"]

\* the payloads the socket sends: update_game_state and client_action,
\* each for the room and for an unknown room
IntruderMessages ==
    {[type |-> "update_game_state", roomId |-> r, state |-> forgedState,
      hidx |-> 0] : r \in {RoomId, NoRoom}}
    \cup {[type |-> "client_action", roomId |-> r,
           action |-> Action("SURRENDER", "h")] : r \in {RoomId, NoRoom}}

InitRelay ==
    /\ gs = [p \in Procs |-> startedState(lobbyState(p), initialState)]
    /\ c2s = [p \in Sockets |-> <<>>]
    /\ s2c = [p \in Procs |-> <<>>]
    /\ room = [socketHostId |-> Host, status |-> "PLAYING", members |-> Procs]
    /\ aiTimers = <<>>
    /\ nInputs = [p \in Sockets |-> 0]
    /\ nAI = 0
    /\ lastExec = [n |-> 0, action |-> Action("NONE", NoPlayer), via |-> "none",
                   applied |-> FALSE, emitted |-> FALSE]
    /\ hostHist = <<Auth(initialState)>>
    /\ adopted = [p \in Procs |-> 1]

\* socket.emit on a socket that is not one of the room's clients
SocketEmit(m) ==
    /\ nInputs[Intruder] < MaxSocketEmits
    /\ hasRoom(c2s[Intruder])
    /\ nInputs' = [nInputs EXCEPT ![Intruder] = @ + 1]
    /\ c2s' = [c2s EXCEPT ![Intruder] = emit(@, m)]
    /\ UNCHANGED <<gs, s2c, room, aiTimers, nAI, lastExec, hostHist, adopted>>

NextRelay ==
    \/ \E type \in ActionTypes : HostDispatch(type)
    \/ \E p \in Procs, type \in ActionTypes : GuestDispatch(p, type)
    \/ \E m \in IntruderMessages : SocketEmit(m)
    \/ \E p \in Procs : RecvGameStateSync(p)
    \/ \E p \in Procs : RecvAction(p)
    \/ \E p \in Sockets : ServerUpdateGameState(p)
    \/ \E p \in Sockets : ServerClientAction(p)

RelaySpec == InitRelay /\ [][NextRelay]_vars

(***************************************************************************)
(* Properties.                                                             *)
(***************************************************************************)
\* the host ran executeGameLogic in this step
hostExecuted == lastExec'.n # lastExec.n

\* the log entries this step appended on the host
newLogs == SubSeq(gs'[Host].logs, Len(gs[Host].logs) + 1, Len(gs'[Host].logs))

\* participant p takes the head of its inbox in this step
receives(p, type) ==
    /\ s2c[p] # <<>>
    /\ Head(s2c[p]).type = type
    /\ s2c'[p] = Tail(s2c[p])

\* C1: on the host, an intent that is not a surrender and whose player is
\* not the player at currentPlayerIndex leaves the whole game state as it
\* was and puts no snapshot on the host's socket.
C1_OutOfTurnIntentIsRejected ==
    [][(/\ hostExecuted
        /\ lastExec'.action.type # "SURRENDER"
        /\ \/ gs[Host].players = <<>>
           \/ gs[Host].players[gs[Host].currentPlayerIndex + 1].id
                  # lastExec'.action.playerId)
       => (gs'[Host] = gs[Host] /\ c2s'[Host] = c2s[Host])]_vars

\* C1: the host has just been handed the guest's out-of-turn intent
C1_Witness ==
    /\ lastExec.n > 0
    /\ lastExec.via = "relay"
    /\ lastExec.action.type \in ActionTypes \ {"SURRENDER"}
    /\ ~lastExec.applied
    /\ gs[Host].players[gs[Host].currentPlayerIndex + 1].id # lastExec.action.playerId

\* C2: every intent the host accepts and applies, whether issued on the
\* host (its user or the AI hook) or forwarded by receive_action, makes the
\* host emit update_game_state with the complete resulting state in the same
\* step, so before the next intent is applied.
C2_AcceptedIntentIsBroadcast ==
    [][(hostExecuted /\ lastExec'.applied)
       => /\ Len(c2s'[Host]) = Len(c2s[Host]) + 1
          /\ SubSeq(c2s'[Host], 1, Len(c2s[Host])) = c2s[Host]
          /\ c2s'[Host][Len(c2s'[Host])].type = "update_game_state"
          /\ c2s'[Host][Len(c2s'[Host])].state = gs'[Host]]_vars

\* the system is quiescent: the game runs on every participant, no message
\* is in flight and no AI continuation is pending
Quiescent ==
    /\ \A p \in Procs : gs[p].phase \in PlayPhases /\ c2s[p] = <<>> /\ s2c[p] = <<>>
    /\ aiTimers = <<>>

\* C3: whenever the system is quiescent, the authoritative fields of every
\* non-host replica equal the host's.
C3_ReplicasEqualHostAtQuiescence ==
    Quiescent => \A p \in Procs : ~gs[p].isHost => Auth(gs[p]) = Auth(gs[Host])

\* C4: a non-host that receives game_state_sync holds exactly the snapshot's
\* authoritative fields afterwards; a host handed a snapshot keeps its state.
C4_SnapshotAdoptedWhole ==
    /\ [][\A p \in Procs :
            receives(p, "game_state_sync")
            => IF gs[p].isHost THEN gs'[p] = gs[p]
               ELSE Auth(gs'[p]) = Auth(Head(s2c[p]).state)]_vars
    /\ [](\A q \in Procs : \A k \in 1..Len(s2c[q]) :
            s2c[q][k].type = "game_state_sync"
            => /\ syncedState(gs[Host], s2c[q][k].state) = gs[Host]
               /\ \A p \in Procs :
                    ~gs[p].isHost
                    => Auth(syncedState(gs[p], s2c[q][k].state))
                         = Auth(s2c[q][k].state))

\* C4: the guest holds a snapshot that replaced a different state
C4_Witness ==
    /\ adopted[Guest] >= 2
    /\ Auth(gs[Guest]) = hostHist[adopted[Guest]]
    /\ Auth(gs[Guest]) # hostHist[adopted[Guest] - 1]

\* C5: on a non-host, selectedTileId is the same after an incoming
\* game_state_sync snapshot is applied as before.
C5_SelectionSurvivesSnapshot ==
    [][\A p \in Procs :
         (receives(p, "game_state_sync") /\ ~gs[p].isHost)
         => gs'[p].selectedTileId = gs[p].selectedTileId]_vars

\* C6: on a non-host, dispatching an intent changes no field of the local
\* state and sends exactly one client_action; the authoritative fields of a
\* non-host change only on receiving game_started or game_state_sync.
C6_NonHostOnlyForwards ==
    [][\A p \in Procs :
         ~gs[p].isHost
         => /\ c2s'[p] # c2s[p] /\ Len(c2s'[p]) >= Len(c2s[p])
               => /\ gs'[p] = gs[p]
                  /\ c2s'[p] = Append(c2s[p], c2s'[p][Len(c2s'[p])])
                  /\ c2s'[p][Len(c2s'[p])].type = "client_action"
                  /\ c2s'[p][Len(c2s'[p])].action.playerId = gs[p].currentUser
            /\ nInputs'[p] # nInputs[p] => Auth(gs'[p]) = Auth(gs[p])
            /\ Auth(gs'[p]) # Auth(gs[p])
               => \/ receives(p, "game_started")
                  \/ receives(p, "game_state_sync")]_vars

\* C6: the guest has dispatched a surrender and still holds the state it
\* held, in which its player is not bankrupt
C6_Witness ==
    /\ c2s[Guest] # <<>>
    /\ Head(c2s[Guest]).type = "client_action"
    /\ Head(c2s[Guest]).action.type = "SURRENDER"
    /\ \A i \in 1..Len(gs[Guest].players) : ~gs[Guest].players[i].bankrupt

\* C7: the host applies the forwarded intents one at a time in arrival
\* order, every state a replica holds is a state the host produced, and a
\* replica never goes back to an older host state.
C7_ReplicaFollowsHostOrder ==
    /\ [](\A p \in Procs :
            (~gs[p].isHost /\ adopted[p] >= 1)
            => /\ adopted[p] <= Len(hostHist)
               /\ Auth(gs[p]) = hostHist[adopted[p]])
    /\ [][/\ \A p \in Procs : adopted'[p] >= adopted[p]
          /\ Len(hostHist') <= Len(hostHist) + 1
          /\ SubSeq(hostHist', 1, Len(hostHist)) = hostHist
          /\ (hostExecuted /\ lastExec'.via = "relay")
             => /\ receives(Host, "receive_action")
                /\ lastExec'.action = Head(s2c[Host]).action
                /\ lastExec'.n = lastExec.n + 1]_vars

\* C7: intents of the host's user, of the AI hook and of the guest have
\* been applied, and the guest holds a later snapshot than its first
C7_Witness ==
    /\ lastExec.via = "relay" /\ lastExec.applied
    /\ nInputs[Host] >= 1 /\ nAI >= 1
    /\ adopted[Guest] >= 3
    /\ Len(hostHist) > adopted[Guest]

\* C8: in every state reached after an accepted intent, a tile's ownerId
\* is a player's id if and only if the tile's id is in that player's
\* properties.
C8_OwnerMatchesProperties ==
    lastExec.applied
    => \A t \in TileIds : \A i \in 1..Len(gs[Host].players) :
         (tileAt(gs[Host].tiles, t).ownerId = gs[Host].players[i].id)
         <=> (\E k \in 1..Len(gs[Host].players[i].properties) :
                gs[Host].players[i].properties[k] = t)

\* the signed amount log entry e moves on the balance of player pid; `at`
\* is the tile the mover arrived on, where a card is drawn
transfer(e, pid, at) ==
    CASE e.msg = "rent" ->
            IF e.who = pid /\ e.other = pid THEN 0
            ELSE IF e.who = pid THEN 0 - e.amount
            ELSE IF e.other = pid THEN e.amount ELSE 0
      [] e.msg \in {"tax", "bought", "bailPaid", "jailForcedBail", "upgraded"} ->
            IF e.who = pid THEN 0 - e.amount ELSE 0
      [] e.msg = "passedStart" -> IF e.who = pid THEN e.amount ELSE 0
      [] e.msg = "cardExecuted" ->
            IF e.who # pid THEN 0
            ELSE LET card == CHANCE_CARDS[e.amount]
                 IN  CASE card.effectType = "MONEY" -> card.value
                       [] card.effectType = "MOVE_TO" ->
                            IF ~(card.value = JailPosition /\ card.jailText)
                               /\ at > card.value
                            THEN PassStartBonus ELSE 0
                       [] card.effectType = "MOVE_STEPS" ->
                            IF at + card.value >= BoardSize
                            THEN PassStartBonus ELSE 0
                       [] OTHER -> 0
      [] OTHER -> 0

\* the tile of the arrival entry among the entries, NoTile without one
arrivedAt(entries) ==
    IF \E k \in 1..Len(entries) : entries[k].msg = "arrived"
    THEN entries[CHOOSE k \in 1..Len(entries) : entries[k].msg = "arrived"].amount
    ELSE NoTile

RECURSIVE transfers(_, _, _)
transfers(entries, pid, at) ==
    IF entries = <<>> THEN 0
    ELSE transfer(Head(entries), pid, at) + transfers(Tail(entries), pid, at)

\* C9 as stated: balances change only by the defined transfers; a rent
\* payment moves exactly the rent from payer to owner, and no other path,
\* decline, end-turn and surrender included, changes any balance.
C9_OnlyDefinedTransfers ==
    [][(hostExecuted /\ lastExec'.applied)
       => \A i \in 1..Len(gs[Host].players) :
            gs'[Host].players[i].money - gs[Host].players[i].money
              = transfers(newLogs, gs[Host].players[i].id, arrivedAt(newLogs))]_vars

\* C9, amended: as above, except that a surrender sets the balance of the
\* surrendering player, and of no other player, to 0.
C9_TransfersOrSurrender ==
    [][(hostExecuted /\ lastExec'.applied)
       => \A i \in 1..Len(gs[Host].players) :
            IF /\ lastExec'.action.type = "SURRENDER"
               /\ lastExec'.action.playerId = gs[Host].players[i].id
            THEN gs'[Host].players[i].money = 0
            ELSE gs'[Host].players[i].money - gs[Host].players[i].money
                   = transfers(newLogs, gs[Host].players[i].id,
                               arrivedAt(newLogs))]_vars

\* C9: the last intent was a roll that ended with a rent payment
C9_Witness ==
    /\ lastExec.applied /\ lastExec.action.type = "ROLL"
    /\ gs[Host].logs[Len(gs[Host].logs)].msg = "rent"
    /\ gs[Host].logs[Len(gs[Host].logs)].amount > 0

\* the player of the intent executed in this step, before and after
roller == gs[Host].players[PIdx(gs[Host], lastExec'.action.playerId)]

rollerAfter == gs'[Host].players[PIdx(gs[Host], lastExec'.action.playerId)]

\* this step applied a roll
rolled == hostExecuted /\ lastExec'.applied /\ lastExec'.action.type = "ROLL"

rolledDouble == gs'[Host].dice[1] = gs'[Host].dice[2]

\* the roll of this step ended in the speeding incarceration
speeding == \E k \in 1..Len(newLogs) : newLogs[k].msg = "speeding"

\* what C10 says of every roll but the increment
rollRules ==
    /\ (~roller.isInJail /\ ~rolledDouble) => rollerAfter.consecutiveDoubles = 0
    /\ ~roller.isInJail
       => (speeding <=> (rolledDouble
                         /\ roller.consecutiveDoubles + 1 = SpeedingDoubles))
    /\ speeding
       => /\ rollerAfter.position = JailPosition
          /\ rollerAfter.isInJail
          /\ rollerAfter.jailTurns = 0
          /\ rollerAfter.consecutiveDoubles = 0
    /\ roller.isInJail => ~speeding

\* C10 as stated: for a roll by a player who is not jailed, a non-double
\* sets consecutiveDoubles to 0, a double increments it, and the roll
\* incarcerates the player exactly when the counter would reach 3; a roll
\* by a jailed player never triggers the speeding incarceration.
C10_DoublesCounter ==
    [][rolled
       => /\ rollRules
          /\ (~roller.isInJail /\ rolledDouble
              /\ roller.consecutiveDoubles + 1 # SpeedingDoubles)
             => rollerAfter.consecutiveDoubles = roller.consecutiveDoubles + 1]_vars

\* C10, amended: a double increments the counter unless the landing of
\* that move sends the player to jail, which sets the counter to 0.
C10_DoublesCounterUnlessJailed ==
    [][rolled
       => /\ rollRules
          /\ (~roller.isInJail /\ rolledDouble
              /\ roller.consecutiveDoubles + 1 # SpeedingDoubles)
             => rollerAfter.consecutiveDoubles =
                  IF rollerAfter.isInJail THEN 0
                  ELSE roller.consecutiveDoubles + 1]_vars

\* C10: a third double in a row has just sent its player to jail
C10_Witness ==
    /\ lastExec.applied /\ lastExec.action.type = "ROLL"
    /\ gs[Host].logs[Len(gs[Host].logs)].msg = "speeding"
    /\ gs[Host].players[PIdx(gs[Host], lastExec.action.playerId)].isInJail


\* the tile the roll of this step arrived on, NoTile if it did not move
landedOn == arrivedAt(newLogs)

\* the owner of tile t before this step, and that player's index
ownerBefore(t) == tileAt(gs[Host].tiles, t).ownerId

\* the roll of this step arrived on a tile of the given type that another
\* player, who is not bankrupt, owns
landsOnRival(type) ==
    /\ rolled
    /\ landedOn # NoTile
    /\ Board(landedOn).type = type
    /\ ownerBefore(landedOn) \notin {NoPlayer, roller.id}
    /\ HasPlayer(gs[Host], ownerBefore(landedOn))
    /\ ~gs[Host].players[PIdx(gs[Host], ownerBefore(landedOn))].bankrupt

\* the rent entries this step logged
rentEntries == SelectSeq(newLogs, LAMBDA e : e.msg = "rent")

\* this step charged the roller exactly one rent, of the given amount, and
\* the owner of the tile received it
chargesRent(amount) ==
    LET o == PIdx(gs[Host], ownerBefore(landedOn))
    IN  /\ Len(rentEntries) = 1
        /\ rentEntries[1].who = roller.id
        /\ rentEntries[1].other = ownerBefore(landedOn)
        /\ rentEntries[1].amount = amount
        /\ gs'[Host].players[o].money = gs[Host].players[o].money + amount
        /\ rollerAfter.money - roller.money
             = transfers(newLogs, roller.id, landedOn)

\* the state follows a roll whose last log entries are the given messages
afterRollLogged(msgs) ==
    /\ lastExec.applied /\ lastExec.action.type = "ROLL"
    /\ Len(gs[Host].logs) >= Len(msgs)
    /\ \A k \in 1..Len(msgs) :
         gs[Host].logs[Len(gs[Host].logs) - Len(msgs) + k].msg = msgs[k]

\* C11: a roll that lands its player on a property owned by another,
\* non-bankrupt player charges twice rent[0] when the tile has no building
\* and the owner holds every tile of its colour group, and rent[houseCount]
\* otherwise; with a building on the tile the rent is never doubled.
C11_PropertyRent ==
    [][landsOnRival("PROPERTY")
       => LET t == landedOn
              built == tileAt(gs[Host].tiles, t).houseCount
              wholeGroup == \A x \in TileIds :
                              Board(x).group = Board(t).group
                              => ownerBefore(x) = ownerBefore(t)
          IN  chargesRent(IF built = 0 /\ wholeGroup
                          THEN 2 * Board(t).rent[1]
                          ELSE Board(t).rent[built + 1])]_vars

\* C11: a roll has just been charged the doubled rent of an unbuilt tile
\* whose group one other player holds
C11_Witness ==
    /\ afterRollLogged(<<"rentDoubled", "rent">>)
    /\ gs[Host].logs[Len(gs[Host].logs)].amount = 2 * Board(3).rent[1]
    /\ gs[Host].players[1].position = 3

\* C12: a roll that lands its player on a station owned by another,
\* non-bankrupt player who holds n stations charges 25 * 2^(n-1): 25, 50,
\* 100 and 200 for one to four stations.
C12_StationRent ==
    [][landsOnRival("STATION")
       => LET n == Cardinality({x \in TileIds :
                                  /\ Board(x).type = "STATION"
                                  /\ ownerBefore(x) = ownerBefore(landedOn)})
          IN  /\ n \in 1..4
              /\ chargesRent(CASE n = 1 -> 25 [] n = 2 -> 50
                               [] n = 3 -> 100 [] n = 4 -> 200)]_vars

\* C12: a roll has just been charged 100 on a station whose owner holds
\* three stations
C12_Witness ==
    /\ afterRollLogged(<<"arrived", "rent">>)
    /\ gs[Host].logs[Len(gs[Host].logs)].amount = 100
    /\ Board(gs[Host].logs[Len(gs[Host].logs) - 1].amount).type = "STATION"
    /\ Cardinality({x \in TileIds : /\ Board(x).type = "STATION"
                                    /\ tileAt(gs[Host].tiles, x).ownerId = "a"}) = 3

\* C13: a roll that lands its player on a utility owned by another,
\* non-bankrupt player charges the sum of the two dice of that roll times
\* 4 when the owner holds one utility and times 10 when the owner holds
\* both.
C13_UtilityRent ==
    [][landsOnRival("UTILITY")
       => LET n == Cardinality({x \in TileIds :
                                  /\ Board(x).type = "UTILITY"
                                  /\ ownerBefore(x) = ownerBefore(landedOn)})
              diceSum == gs'[Host].dice[1] + gs'[Host].dice[2]
          IN  /\ n \in 1..2
              /\ chargesRent(diceSum * (IF n = 2 THEN 10 ELSE 4))]_vars

\* C13: a roll of 1 and 2 has just been charged 30 on a utility whose
\* owner holds both utilities
C13_Witness ==
    /\ afterRollLogged(<<"arrived", "utilityFee", "rent">>)
    /\ gs[Host].dice = <<1, 2>>
    /\ gs[Host].logs[Len(gs[Host].logs)].amount = 30
    /\ tileAt(gs[Host].tiles, 12).ownerId = "a"
    /\ tileAt(gs[Host].tiles, 28).ownerId = "a"

\* the entries this step logged before the arrival entry: the roll, the
\* release from jail and the pass over the start tile
beforeArrival ==
    SubSeq(newLogs, 1,
           (CHOOSE k \in 1..Len(newLogs) : newLogs[k].msg = "arrived") - 1)

\* the roll of this step arrived on a property, station or utility that
\* nobody owns
landsOnUnowned ==
    /\ rolled
    /\ landedOn # NoTile
    /\ Board(landedOn).type \in {"PROPERTY", "STATION", "UTILITY"}
    /\ ownerBefore(landedOn) = NoPlayer

\* C14: a roll that lands its player on an unowned property, station or
\* utility sets the phase to ACTION, and the landing changes no balance
\* and no tile (balances move only by what the roll did before the
\* arrival); a tile without an owner gets one only by an accepted BUY of
\* the player standing on it.
C14_UnownedLandingOnlyOffers ==
    [][/\ landsOnUnowned
          => /\ gs'[Host].phase = "ACTION"
             /\ gs'[Host].tiles = gs[Host].tiles
             /\ \A i \in 1..Len(gs[Host].players) :
                  /\ gs'[Host].players[i].properties
                       = gs[Host].players[i].properties
                  /\ gs'[Host].players[i].money - gs[Host].players[i].money
                       = transfers(beforeArrival, gs[Host].players[i].id, NoTile)
       /\ \A t \in TileIds :
            (ownerBefore(t) = NoPlayer /\ tileAt(gs'[Host].tiles, t).ownerId # NoPlayer)
            => /\ hostExecuted /\ lastExec'.applied
               /\ lastExec'.action.type = "BUY"
               /\ tileAt(gs'[Host].tiles, t).ownerId = lastExec'.action.playerId
               /\ roller.position = t]_vars

\* C14: a roll has just arrived on a tile nobody owns and the purchase is
\* on offer
C14_Witness ==
    /\ afterRollLogged(<<"arrived">>)
    /\ gs[Host].phase = "ACTION"
    /\ LET t == gs[Host].logs[Len(gs[Host].logs)].amount
       IN  /\ Board(t).type \in {"PROPERTY", "STATION", "UTILITY"}
           /\ tileAt(gs[Host].tiles, t).ownerId = NoPlayer

\* this step is the roll of a non-double by a jailed player whose jail-turn
\* counter is 2
forcedRelease ==
    /\ rolled
    /\ roller.isInJail
    /\ roller.jailTurns = MaxJailTurns
    /\ ~rolledDouble

\* no roll-again is granted by this step
turnEnds ==
    /\ ~gs'[Host].waitingForDoublesTurn
    /\ gs'[Host].phase \in {"END_TURN", "ACTION", "GAME_OVER"}

\* the tile a move by the dice of this step reaches
rollTarget ==
    (roller.position + gs'[Host].dice[1] + gs'[Host].dice[2]) % BoardSize

\* the entries this step logged from the arrival entry on
fromArrival ==
    SubSeq(newLogs, Len(beforeArrival) + 1, Len(newLogs))

\* this step logged an entry with the given message
logged(msg) == \E k \in 1..Len(newLogs) : newLogs[k].msg = msg

\* C15 as stated: when a jailed player whose jail-turn counter is 2 rolls
\* a non-double, the balance decreases by the 50 bail fee, the jailed flag
\* clears, the jail-turn counter resets to 0, the player moves by the roll
\* total, and the turn ends with no roll-again.
C15_ForcedRelease ==
    [][forcedRelease
       => /\ rollerAfter.money = roller.money - 50
          /\ ~rollerAfter.isInJail
          /\ rollerAfter.jailTurns = 0
          /\ rollerAfter.position = rollTarget
          /\ turnEnds]_vars

\* C15, amended: the player pays the 50 bail fee, the jail-turn counter
\* is 0 and the player arrives on the tile the roll total leads to; that
\* landing is then resolved as for any non-double, so the balance is the
\* old one less 50 and the landing's transfers, the player stays on that
\* tile unless a card moves them, and the jailed flag is clear unless the
\* landing sends the player to jail again; no roll-again is granted.
C15_ForcedReleaseThenLanding ==
    [][forcedRelease
       => /\ landedOn = rollTarget
          /\ rollerAfter.money
               = roller.money - 50 + transfers(fromArrival, roller.id, landedOn)
          /\ rollerAfter.jailTurns = 0
          /\ rollerAfter.isInJail <=> (logged("goToJail") \/ logged("cardJail"))
          /\ ~logged("cardExecuted") /\ ~rollerAfter.isInJail
             => rollerAfter.position = rollTarget
          /\ rollerAfter.isInJail => rollerAfter.position = JailPosition
          /\ turnEnds]_vars

\* C15: a forced release has just moved its player out of jail onto
\* tile 13
C15_Witness ==
    /\ lastExec.applied /\ lastExec.action.type = "ROLL"
    /\ \E k \in 1..Len(gs[Host].logs) : gs[Host].logs[k].msg = "jailForcedBail"
    /\ gs[Host].players[1].position = 13
    /\ ~gs[Host].players[1].isInJail
    /\ gs[Host].players[1].jailTurns = 0

\* this step is a roll whose rent payment left the payer below zero while
\* exactly two players were not bankrupt
rentBankruptsOneOfTwo ==
    /\ rolled
    /\ Len(activePlayers(gs[Host].players)) = 2
    /\ ~roller.bankrupt
    /\ Len(rentEntries) = 1
    /\ rollerAfter.money < 0

\* C16: when exactly two active players remain and a rent payment drives
\* the payer's balance below zero, the payer is marked bankrupt, every
\* tile the payer owned has its owner cleared and its building count 0,
\* the other player is the winner and the phase is GAME_OVER.
C16_LastRentBankruptcyEndsGame ==
    [][rentBankruptsOneOfTwo
       => /\ rollerAfter.bankrupt
          /\ \A t \in TileIds :
               ownerBefore(t) = roller.id
               => tileAt(gs'[Host].tiles, t) = freeTile
          /\ gs'[Host].winner = rentEntries[1].other
          /\ gs'[Host].phase = "GAME_OVER"]_vars

\* the intent of the given type was accepted by the turn validation and
\* executed in this step
accepted(type) ==
    /\ hostExecuted
    /\ lastExec'.applied
    /\ lastExec'.action.type = type

\* balances, positions, properties and tiles are as before this step
boardUntouched ==
    /\ gs'[Host].players = gs[Host].players
    /\ gs'[Host].tiles = gs[Host].tiles

\* C17: an upgrade intent adds one building to the selected tile and
\* deducts its building cost only if the acting player owns the tile and
\* every tile of its colour group, the tile has fewer than 5 buildings and
\* the player's balance is at least the building cost; otherwise it
\* leaves tiles and balances unchanged.
C17_UpgradeOnlyWhenEntitled ==
    [][accepted("UPGRADE")
       => LET t == gs[Host].selectedTileId
              entitled ==
                  /\ t # NoTile
                  /\ Board(t).type = "PROPERTY"
                  /\ \A x \in TileIds :
                       Board(x).group = Board(t).group
                       => ownerBefore(x) = roller.id
                  /\ tileAt(gs[Host].tiles, t).houseCount < 5
                  /\ roller.money >= Board(t).houseCost
          IN  IF entitled
              THEN /\ tileAt(gs'[Host].tiles, t).houseCount
                        = tileAt(gs[Host].tiles, t).houseCount + 1
                   /\ rollerAfter.money = roller.money - Board(t).houseCost
              ELSE boardUntouched]_vars

\* C18: a buy intent leaves every balance and every owner as it was when
\* the tile the player stands on already has an owner or the player's
\* balance is below the price; otherwise it deducts the price, makes the
\* player the owner, and sets the phase to ROLLING if the roll-again flag
\* is set and to END_TURN if not.
C18_BuyOnlyUnownedAffordable ==
    [][(accepted("BUY")
        /\ Board(roller.position).type \in {"PROPERTY", "STATION", "UTILITY"})
       => LET t == roller.position
          IN  IF ownerBefore(t) # NoPlayer \/ roller.money < Board(t).price
              THEN boardUntouched
              ELSE /\ rollerAfter.money = roller.money - Board(t).price
                   /\ tileAt(gs'[Host].tiles, t).ownerId = roller.id
                   /\ gs'[Host].phase = IF gs[Host].waitingForDoublesTurn
                                        THEN "ROLLING" ELSE "END_TURN"]_vars

\* the players who are not bankrupt after this step
survivors == activePlayers(gs'[Host].players)

\* the 0-based index of the first player after the current one, in turn
\* order, who is not bankrupt after this step
nextInTurn ==
    LET n == Len(gs[Host].players)
        at(k) == (gs[Host].currentPlayerIndex + k) % n
        k == CHOOSE k \in 1..n :
               /\ ~gs'[Host].players[at(k) + 1].bankrupt
               /\ \A j \in 1..(k - 1) : gs'[Host].players[at(j) + 1].bankrupt
    IN  at(k)

\* C19: a surrender of a player who is not bankrupt, in any phase and
\* whoever's turn it is, marks that player bankrupt and releases all their
\* tiles.  When at most one player is left, the phase becomes GAME_OVER
\* with the survivor as winner; otherwise the turn passes to the next
\* non-bankrupt player if the surrendering player was the current one,
\* and currentPlayerIndex and phase stay as they were if not.
C19_Surrender ==
    [][(hostExecuted /\ lastExec'.action.type = "SURRENDER" /\ ~roller.bankrupt)
       => /\ lastExec'.applied
          /\ rollerAfter.bankrupt
          /\ \A t \in TileIds :
               ownerBefore(t) = roller.id => tileAt(gs'[Host].tiles, t) = freeTile
          /\ \A t \in TileIds :
               ownerBefore(t) # roller.id
               => tileAt(gs'[Host].tiles, t) = tileAt(gs[Host].tiles, t)
          /\ IF Len(survivors) <= 1
             THEN /\ gs'[Host].phase = "GAME_OVER"
                  /\ Len(survivors) = 1 => gs'[Host].winner = survivors[1].id
             ELSE IF gs[Host].players[gs[Host].currentPlayerIndex + 1].id = roller.id
             THEN /\ gs'[Host].currentPlayerIndex = nextInTurn
                  /\ gs'[Host].phase = "ROLLING"
             ELSE /\ gs'[Host].currentPlayerIndex = gs[Host].currentPlayerIndex
                  /\ gs'[Host].phase = gs[Host].phase]_vars

\* C19: a player whose turn it was not has just surrendered and left a
\* single survivor, who is the winner
C19_Witness ==
    /\ lastExec.applied /\ lastExec.action.type = "SURRENDER"
    /\ gs[Host].players[gs[Host].currentPlayerIndex + 1].id # lastExec.action.playerId
    /\ gs[Host].phase = "GAME_OVER"
    /\ Len(activePlayers(gs[Host].players)) = 1
    /\ gs[Host].winner = activePlayers(gs[Host].players)[1].id

\* C20: once the phase is GAME_OVER, no later intent changes the phase,
\* the winner, any player's balance or position, or the owner of any tile.
C20_GameOverIsTerminal ==
    [][gs[Host].phase = "GAME_OVER"
       => /\ gs'[Host].phase = "GAME_OVER"
          /\ gs'[Host].winner = gs[Host].winner
          /\ \A i \in 1..Len(gs[Host].players) :
               /\ gs'[Host].players[i].money = gs[Host].players[i].money
               /\ gs'[Host].players[i].position = gs[Host].players[i].position
          /\ \A t \in TileIds :
               tileAt(gs'[Host].tiles, t).ownerId = ownerBefore(t)]_vars

\* C21: after any intent has been applied, no player who is not bankrupt
\* has a negative balance: every payment that takes the payer below zero
\* (rent, tax, forced bail, a negative money card) marks the payer
\* bankrupt and releases their tiles.
C21_NoNegativeBalanceInPlay ==
    \A i \in 1..Len(gs[Host].players) :
        LET p == gs[Host].players[i]
        IN  /\ ~p.bankrupt => p.money >= 0
            /\ p.money < 0
               => /\ p.bankrupt
                  /\ \A t \in TileIds : tileAt(gs[Host].tiles, t).ownerId # p.id

\* C22: between intents, whenever the phase is ROLLING, ACTION,
\* SHOWING_CARD or END_TURN, the player at currentPlayerIndex is not
\* bankrupt.
C22_CurrentPlayerIsActive ==
    (gs[Host].phase \in {"ROLLING", "ACTION", "SHOWING_CARD", "END_TURN"}
     /\ Len(gs[Host].players) > 0)
    => ~gs[Host].players[gs[Host].currentPlayerIndex + 1].bankrupt

\* C23: a pay-bail intent of the current player whose balance is below 50
\* changes no balance, jail flag or counter and appends a warning entry to
\* the log; with a balance of at least 50 it deducts exactly 50, clears the
\* jailed flag and resets the jail-turn and doubles counters; in both
\* cases phase and positions stay as they were.
C23_PayBail ==
    [][accepted("PAY_BAIL")
       => /\ IF roller.money < 50
             THEN /\ gs'[Host].players = gs[Host].players
                  /\ Len(newLogs) = 1
                  /\ newLogs[1].type = "warning"
             ELSE /\ rollerAfter
                       = [roller EXCEPT !.money = roller.money - 50,
                                        !.isInJail = FALSE,
                                        !.jailTurns = 0,
                                        !.consecutiveDoubles = 0]
                  /\ \A i \in 1..Len(gs[Host].players) :
                       gs[Host].players[i].id # roller.id
                       => gs'[Host].players[i] = gs[Host].players[i]
          /\ gs'[Host].phase = gs[Host].phase
          /\ gs'[Host].currentPlayerIndex = gs[Host].currentPlayerIndex
          /\ gs'[Host].tiles = gs[Host].tiles]_vars

\* C23: a jailed player has just paid the bail and is free
C23_Witness ==
    /\ lastExec.applied /\ lastExec.action.type = "PAY_BAIL"
    /\ gs[Host].logs[Len(gs[Host].logs)].msg = "bailPaid"
    /\ gs[Host].players[1].position = JailPosition
    /\ ~gs[Host].players[1].isInJail
    /\ gs[Host].players[1].money = InitialMoney - 50

\* C24: an end-turn intent with at least two non-bankrupt players moves
\* currentPlayerIndex to the first non-bankrupt player strictly after the
\* old index in circular order, sets the phase to ROLLING and clears the
\* roll-again flag; the skip loop yields an index of the roster for every
\* distribution of the bankrupt flags, all players bankrupt included.
C24_Rotation ==
    /\ [](Len(gs[Host].players) > 0
          => skipBankrupt(gs[Host].players,
                          (gs[Host].currentPlayerIndex + 1) % Len(gs[Host].players),
                          0) \in 0..(Len(gs[Host].players) - 1))
    /\ [][(accepted("END_TURN") /\ Len(activePlayers(gs[Host].players)) >= 2)
          => /\ gs'[Host].currentPlayerIndex = nextInTurn
             /\ gs'[Host].currentPlayerIndex # gs[Host].currentPlayerIndex
             /\ ~gs'[Host].players[gs'[Host].currentPlayerIndex + 1].bankrupt
             /\ gs'[Host].phase = "ROLLING"
             /\ ~gs'[Host].waitingForDoublesTurn
             /\ gs'[Host].players = gs[Host].players]_vars

\* C24: an end-turn has just passed the turn over two bankrupt players in
\* a room of four, with the roll-again flag cleared
C24_Witness ==
    /\ lastExec.applied /\ lastExec.action.type = "END_TURN"
    /\ Len(gs[Host].players) = 4
    /\ gs[Host].phase = "ROLLING"
    /\ gs[Host].currentPlayerIndex = 0
    /\ gs[Host].players[3].bankrupt /\ gs[Host].players[4].bankrupt
    /\ lastExec.action.playerId = "a"

\* C25: whenever the phase is GAME_OVER at most one player is not
\* bankrupt and the winner is that player (nobody if there is none);
\* conversely, after any accepted intent that leaves at most one player
\* not bankrupt the phase is GAME_OVER.
C25_GameOverIffOneLeft ==
    /\ [](gs[Host].phase = "GAME_OVER"
          => /\ Len(activePlayers(gs[Host].players)) <= 1
             /\ gs[Host].winner = FirstActive(gs[Host].players))
    /\ [][(hostExecuted /\ lastExec'.applied /\ Len(survivors) <= 1)
          => gs'[Host].phase = "GAME_OVER"]_vars

\* this step is a roll by a jailed player
jailedRoll == rolled /\ roller.isInJail

\* what C26 says of a failed attempt: a non-double with the jail-turn
\* counter below 2 increments the counter, leaves position and balance,
\* keeps the player jailed and sets the phase to END_TURN
failedAttempt ==
    (jailedRoll /\ ~rolledDouble /\ roller.jailTurns < MaxJailTurns)
    => /\ rollerAfter.jailTurns = roller.jailTurns + 1
       /\ rollerAfter.position = roller.position
       /\ rollerAfter.money = roller.money
       /\ rollerAfter.isInJail
       /\ gs'[Host].phase = "END_TURN"

thirdDouble ==
    /\ rolled
    /\ ~roller.isInJail
    /\ rolledDouble
    /\ roller.consecutiveDoubles = SpeedingDoubles - 1

\* C27: the roll that is a free player's third consecutive double places
\* the player on tile 10, jailed, with both counters 0; the phase is
\* END_TURN with the roll-again flag clear; and the roll causes no move by
\* the dice, no pass-start bonus and no landing resolution: no balance,
\* tile or pending card changes and no other player is touched.
C27_SpeedingSkipsTheMove ==
    [][thirdDouble
       => /\ rollerAfter = [roller EXCEPT !.position = 10,
                                          !.isInJail = TRUE,
                                          !.jailTurns = 0,
                                          !.consecutiveDoubles = 0]
          /\ \A i \in 1..Len(gs[Host].players) :
               gs[Host].players[i].id # roller.id
               => gs'[Host].players[i] = gs[Host].players[i]
          /\ gs'[Host].phase = "END_TURN"
          /\ ~gs'[Host].waitingForDoublesTurn
          /\ gs'[Host].tiles = gs[Host].tiles
          /\ gs'[Host].currentCard = gs[Host].currentCard
          /\ gs'[Host].currentPlayerIndex = gs[Host].currentPlayerIndex
          /\ ~logged("arrived") /\ ~logged("passedStart") /\ ~logged("rent")
          /\ ~logged("tax") /\ ~logged("cardExecuted")]_vars

\* C27: a third double in a row has just jailed its player on tile 10 and
\* ended the turn
C27_Witness ==
    /\ lastExec.applied /\ lastExec.action.type = "ROLL"
    /\ gs[Host].logs[Len(gs[Host].logs)].msg = "speeding"
    /\ gs[Host].dice[1] = gs[Host].dice[2]
    /\ gs[Host].phase = "END_TURN"
    /\ ~gs[Host].waitingForDoublesTurn
    /\ gs[Host].players[PIdx(gs[Host], lastExec.action.playerId)].position = 10

\* this step is a roll that moved its player by the dice
diceMove == rolled /\ logged("arrived")

\* the sum of the dice of the roll of this step
diceTotal == gs'[Host].dice[1] + gs'[Host].dice[2]

\* C28: a dice move from position p by total t arrives on tile
\* (p + t) mod 40, and the player receives the 200 pass-start bonus
\* exactly when p + t >= 40, stopping exactly on tile 0 included, and once.
C28_DiceMove ==
    [][diceMove
       => LET wraps == roller.position + diceTotal >= 40
              bonus == IF wraps THEN 200 ELSE 0
              bail == IF logged("jailForcedBail") THEN BailFee ELSE 0
          IN  /\ landedOn = (roller.position + diceTotal) % 40
              /\ landedOn \in 0..39
              /\ Len(SelectSeq(newLogs, LAMBDA e : e.msg = "passedStart"))
                   = IF wraps THEN 1 ELSE 0
              /\ rollerAfter.money
                   = roller.money + bonus - bail
                     + transfers(fromArrival, roller.id, landedOn)]_vars

\* C28: a roll of (1,1) from tile 38 has just stopped exactly on tile 0
\* and paid the bonus
C28_Witness ==
    /\ afterRollLogged(<<"rolled", "passedStart", "arrived">>)
    /\ gs[Host].dice = <<1, 1>>
    /\ gs[Host].players[1].position = 0
    /\ gs[Host].players[1].money \in {m + 200 : m \in MoverBalances}

\* C29: a move that lands its player on the go-to-jail tile places the
\* player on tile 10, jailed, with the jail-turn and doubles counters 0,
\* and the phase is END_TURN with the roll-again flag clear, also when the
\* roll was a double.
C29_GoToJailTile ==
    [][(diceMove /\ Board(landedOn).type = "GO_TO_JAIL")
       => /\ rollerAfter.position = 10
          /\ rollerAfter.isInJail
          /\ rollerAfter.jailTurns = 0
          /\ rollerAfter.consecutiveDoubles = 0
          /\ gs'[Host].phase = "END_TURN"
          /\ ~gs'[Host].waitingForDoublesTurn]_vars

\* C29: a double has just landed its player on the go-to-jail tile and
\* the player is in jail with the turn over
C29_Witness ==
    /\ afterRollLogged(<<"arrived", "goToJail">>)
    /\ gs[Host].dice[1] = gs[Host].dice[2]
    /\ gs[Host].players[1].position = JailPosition
    /\ gs[Host].players[1].isInJail
    /\ gs[Host].phase = "END_TURN"

\* the card this step applied, when it applied one
cardApplied ==
    CHANCE_CARDS[newLogs[CHOOSE k \in 1..Len(newLogs) :
                           newLogs[k].msg = "cardExecuted"].amount]

\* the balance of the roller on arrival, before the tile takes effect
balanceOnArrival ==
    roller.money + (IF logged("passedStart") THEN PassStartBonus ELSE 0)
                 - (IF logged("jailForcedBail") THEN BailFee ELSE 0)

C31_MoveStepsCard ==
    [][(rolled /\ logged("cardExecuted")
          /\ cardApplied.effectType = "MOVE_STEPS")
       => LET raw == landedOn + cardApplied.value
          IN  /\ rollerAfter.position = raw % 40
              /\ rollerAfter.position \in 0..39
              /\ rollerAfter.money
                   = balanceOnArrival + (IF raw >= 40 THEN 200 ELSE 0)]_vars

\* C31: a forward MOVE_STEPS card drawn on tile 36 has just carried its
\* player over the start tile to tile 1
C31_Witness ==
    /\ afterRollLogged(<<"arrived", "cardExecuted">>)
    /\ gs[Host].logs[Len(gs[Host].logs) - 1].amount = 36
    /\ CHANCE_CARDS[gs[Host].logs[Len(gs[Host].logs)].amount].effectType = "MOVE_STEPS"
    /\ CHANCE_CARDS[gs[Host].logs[Len(gs[Host].logs)].amount].value > 0
    /\ gs[Host].players[1].position = 1

\* the roll of this step moved its player onto a card tile
drewCard ==
    diceMove /\ Board(landedOn).type \in {"CHANCE", "COMMUNITY_CHEST"}

\* C32: a card draw leaves the game in phase SHOWING_CARD with the drawn
\* card pending and its effect not yet applied (the player still on the
\* card tile with the balance of the arrival), the effect being applied by
\* a single deferred action afterwards.
C32_CardEffectIsDeferred ==
    [][drewCard
       => /\ gs'[Host].phase = "SHOWING_CARD"
          /\ gs'[Host].currentCard \in CardIds
          /\ ~logged("cardExecuted")
          /\ rollerAfter.position = landedOn
          /\ rollerAfter.money = balanceOnArrival
          /\ ~rollerAfter.isInJail]_vars

\* the landing of this step's roll ended neither in jail, nor in a
\* bankruptcy, nor in a purchase decision
landingResolved ==
    /\ diceMove
    /\ ~rollerAfter.isInJail
    /\ ~rollerAfter.bankrupt
    /\ gs'[Host].phase # "ACTION"

\* the landing of this step's roll opened a purchase decision
decisionOpened == diceMove /\ gs'[Host].phase = "ACTION"

\* the current player answered the purchase decision in this step, by a
\* decline or by a buy that was carried out
decisionAnswered ==
    /\ gs[Host].phase = "ACTION"
    /\ \/ accepted("PASS")
       \/ accepted("BUY") /\ logged("bought")

\* the purchase decision stays open over this step, which is not a roll
decisionPending ==
    /\ hostExecuted /\ ~rolled
    /\ gs[Host].phase = "ACTION" /\ gs'[Host].phase = "ACTION"

\* the phase and roll-again flag after this step are those of a roll that
\* grants another roll (again) or does not
afterLanding(again) ==
    /\ gs'[Host].phase = IF again THEN "ROLLING" ELSE "END_TURN"
    /\ gs'[Host].waitingForDoublesTurn = again

\* C33: after a landing that ends neither in jail, nor in bankruptcy, nor
\* in a purchase decision, the phase is ROLLING with the roll-again flag
\* set if the roll was a double and END_TURN with the flag clear
\* otherwise; a purchase decision carries the same flag from its roll to
\* its answer by buy or decline, which applies the same rule.
C33_AfterLandingPhase ==
    /\ [][landingResolved => afterLanding(rolledDouble)]_vars
    /\ [][decisionOpened
            => gs'[Host].waitingForDoublesTurn = rolledDouble]_vars
    /\ [][decisionPending
            => gs'[Host].waitingForDoublesTurn
                 = gs[Host].waitingForDoublesTurn]_vars
    /\ [][decisionAnswered
            => afterLanding(gs[Host].waitingForDoublesTurn)]_vars

\* the roll of this step grants another roll: a double rolled by a player
\* who was not in jail
grantsRollAgain == rolledDouble /\ ~roller.isInJail

\* C33, amended: as above, where only a double rolled by a player who was
\* free counts; a double that releases a player from jail is resolved as
\* a roll that is not a double.
C33_AfterLandingPhaseOfFreeDouble ==
    /\ [][landingResolved => afterLanding(grantsRollAgain)]_vars
    /\ [][decisionOpened
            => gs'[Host].waitingForDoublesTurn = grantsRollAgain]_vars
    /\ [][decisionPending
            => gs'[Host].waitingForDoublesTurn
                 = gs[Host].waitingForDoublesTurn]_vars
    /\ [][decisionAnswered
            => afterLanding(gs[Host].waitingForDoublesTurn)]_vars

\* C33: a purchase decision opened by a double has just been declined and
\* the player is to roll again
C33_Witness ==
    /\ lastExec.n = 2
    /\ lastExec.applied /\ lastExec.action.type = "PASS"
    /\ gs[Host].dice[1] = gs[Host].dice[2]
    /\ gs[Host].phase = "ROLLING"
    /\ gs[Host].waitingForDoublesTurn
    /\ tileAt(gs[Host].tiles, gs[Host].players[1].position).ownerId = NoPlayer

\* houseCount of tile t before and after this step
housesBefore(t) == tileAt(gs[Host].tiles, t).houseCount
housesAfter(t) == tileAt(gs'[Host].tiles, t).houseCount

\* C34: every tile's building count is within 0..5, is above 0 only on a
\* property tile, and is 0 on every unowned tile; it changes only by +1 or
\* by a reset to 0, and it increases only while the tile's owner holds
\* every tile of its colour group.
C34_BuildingCounts ==
    /\ [](\A t \in TileIds :
            LET tile == tileAt(gs[Host].tiles, t)
            IN  /\ tile.houseCount \in 0..5
                /\ tile.houseCount > 0 => Board(t).type = "PROPERTY"
                /\ tile.ownerId = NoPlayer => tile.houseCount = 0)
    /\ [][\A t \in TileIds :
            housesAfter(t) # housesBefore(t)
            => \/ housesAfter(t) = 0
               \/ /\ housesAfter(t) = housesBefore(t) + 1
                  /\ checkOwnsGroup(ownerBefore(t), Board(t).group,
                                    gs[Host].tiles)]_vars

\* C35: every player's position is within 0..39, the jail-turn counter is
\* within 0..2 and is 0 whenever the player is not jailed, and the
\* consecutive-doubles counter is within 0..2.
C35_PlayerRanges ==
    \A i \in 1..Len(gs[Host].players) :
        LET p == gs[Host].players[i]
        IN  /\ p.position \in 0..39
            /\ p.jailTurns \in 0..2
            /\ ~p.isInJail => p.jailTurns = 0
            /\ p.consecutiveDoubles \in 0..2

\* C35: a player sits in jail with two failed attempts behind them
C35_Witness ==
    \E i \in 1..Len(gs[Host].players) :
        /\ gs[Host].players[i].isInJail
        /\ gs[Host].players[i].jailTurns = 2
        /\ gs[Host].players[i].position = JailPosition

\* the player whose turn it is on the host
currentPlayer == gs[Host].players[gs[Host].currentPlayerIndex + 1]

\* the purchase decision is open and it is an automated player's
aiDeciding ==
    /\ gs[Host].phase = "ACTION"
    /\ currentPlayer.isAI /\ ~currentPlayer.bankrupt

\* the continuations of the hook that wait to ask the decision provider
\* for the current player
consultations ==
    {k \in 1..Len(aiTimers) : /\ aiTimers[k].phase = "ACTION"
                              /\ aiTimers[k].pid = currentPlayer.id}

\* a continuation of the hook got the provider's answer in this step
answered ==
    Cardinality({k \in 1..Len(aiTimers') : aiTimers'[k].phase = "ACTION"})
      < Cardinality({k \in 1..Len(aiTimers) : aiTimers[k].phase = "ACTION"})

aiToMove ==
    /\ gs[Host].phase \in {"ROLLING", "ACTION", "END_TURN"}
    /\ currentPlayer.isAI /\ ~currentPlayer.bankrupt

\* C37: whenever it is the turn of a non-bankrupt automated player and the
\* phase is ROLLING, ACTION or END_TURN, the host eventually issues an
\* intent for that player, in a roll-again state that follows a roll-again
\* state too: the player never stays to move for ever while no further
\* intent is issued for it.
C37_AINeverStalls ==
    <>[](aiToMove /\ nAI < MaxAIIntents) => []<><<nAI' > nAI>>_vars

\* C38: a roll intent of the current player in phase ACTION, SHOWING_CARD
\* or END_TURN leaves dice, positions, balances and phase unchanged; the
\* player moves only when the phase is ROLLING.
C38_RollOnlyWhenRolling ==
    [][(accepted("ROLL") /\ gs[Host].phase \in {"ACTION", "SHOWING_CARD", "END_TURN"})
       => /\ gs'[Host].dice = gs[Host].dice
          /\ gs'[Host].phase = gs[Host].phase
          /\ \A i \in 1..Len(gs[Host].players) :
               /\ gs'[Host].players[i].position = gs[Host].players[i].position
               /\ gs'[Host].players[i].money = gs[Host].players[i].money]_vars

\* C39: an end-turn intent of the current player in phase ROLLING or
\* ACTION leaves currentPlayerIndex and phase unchanged; the turn advances
\* only when the phase is END_TURN.
C39_EndTurnOnlyWhenEnded ==
    [][(accepted("END_TURN") /\ gs[Host].phase \in {"ROLLING", "ACTION"})
       => /\ gs'[Host].currentPlayerIndex = gs[Host].currentPlayerIndex
          /\ gs'[Host].phase = gs[Host].phase]_vars

\* the relay takes the head of what socket p sent in this step
relays(p, type) ==
    /\ c2s[p] # <<>> /\ Head(c2s[p]).type = type
    /\ c2s'[p] = Tail(c2s[p])

\* every game_state_sync on its way to a client of the room carries a state
\* the room's host produced
snapshotsFromHost ==
    \A q \in Procs : \A k \in 1..Len(s2c[q]) :
        s2c[q][k].type = "game_state_sync"
        => /\ s2c[q][k].hidx \in 1..Len(hostHist)
           /\ Auth(s2c[q][k].state) = hostHist[s2c[q][k].hidx]

\* a client_action for the room goes to the inbox of the room's host socket
\* and to no other; one for an unknown room goes nowhere
actionsToHostOnly ==
    \A p \in DOMAIN c2s :
        relays(p, "client_action")
        => s2c' = IF Head(c2s[p]).roomId = RoomId
                  THEN [s2c EXCEPT ![room.socketHostId] =
                           Append(@, [type |-> "receive_action",
                                      action |-> Head(c2s[p]).action])]
                  ELSE s2c

\* the authoritative fields of a non-host change only to a state the host
\* produced
replicaChangedByHostOnly ==
    \A p \in Procs :
        (~gs[p].isHost /\ Auth(gs'[p]) # Auth(gs[p]))
        => \E i \in 1..Len(hostHist) : Auth(gs'[p]) = hostHist[i]

\* C40: through the relay, every game_state_sync snapshot a replica receives
\* for a room was emitted by the room's host; every client_action for a
\* known room is delivered to the room's host socket only and one for an
\* unknown room is dropped; nobody but the host can make a replica's state
\* change.
C40_RelayIsolation ==
    /\ []snapshotsFromHost
    /\ [][actionsToHostOnly]_vars
    /\ [][replicaChangedByHostOnly]_vars

====
